---------------------------- MODULE Spec2Model ----------------------------
(***************************************************************************)
(* FLaapLUC trigger-decision subsystem.                                    *)
(*                                                                         *)
(* Two generations of the evaluator live in the repository:                *)
(*   "flaapluc" : class automaticLightCurve, src/flaapluc/...py            *)
(*   "autoLC"   : class autoLC,              src/automaticLightCurve.py    *)
(* The variable `version` says which class the modelled object is.         *)
(*                                                                         *)
(* Units.  Angles are integers in 1e-5 degree, redshifts in 1e-2, fluxes   *)
(* in 1e-7 ph cm^-2 s^-1, times in ticks of ten minutes counted from the   *)
(* clock reading of is_visible.  Real arithmetic is exact (rationals as    *)
(* <<numerator, denominator>>); floating-point rounding is not modelled.   *)
(***************************************************************************)
EXTENDS Integers, Sequences, FiniteSets, TLC

VARIABLES
    version,          \* which class the object is an instance of
    pc,               \* position of the monitoring cycle: "loaded", "figured", "evaluated"
    \* ---- fields set by __init__ ----
    forcealert,       \* self.forcealert
    daily,            \* self.daily
    withhistory,      \* self.withhistory
    sigma,            \* self.sigma   (rational)
    sigmaLT,          \* self.sigmaLT (rational)
    threshold,        \* self.threshold, a real of the form avg + sig*sqrt(var)
    checkVisibility,  \* self.checkVisibility: a config string, or FALSE
    siteLat,          \* self.siteLat, Nothing when __init__ never assigned it
    maxz,             \* self.maxz  (Policy Grid, redshift column)
    maxZA,            \* self.maxZA (Policy Grid, zenith-angle column)
    \* ---- fields set by readSourceList ----
    dec,              \* self.dec
    z,                \* self.z, Nothing for a masked ('--') redshift
    \* ---- fields set by the evaluation ----
    visible,          \* self.visible
    triggerkilled,    \* self.triggerkilled
    active,           \* self.active
    lastFlux, lastFluxErr,                        \* last point of the evaluated series
    lastFluxLongTimeBin, lastFluxErrLongTimeBin,  \* last point of the long-bin series
    \* ---- construction and the list of sources ----
    config,           \* the configuration file: what each option holds
    settings,         \* the other fields set by __init__, and the warnings it printed
    customThreshold,  \* self.customThreshold
    srcList,          \* the list of sources, as far as the requested source goes
    \* ---- the batch of processAllSources and the tool steps ----
    batch,            \* the sources of a batch and what became of each
    files,            \* output files of the tool steps present in workDir
    toolRuns,         \* how many times each tool was run
    \* ---- a run of main of automaticLightCurve.py ----
    options,          \* DAILY, MAIL, LONGTERM, MERGELONGTERM as main parsed them
    workDir,          \* auto.workDir of the last autoLC that processSrc built
    today,            \* environment: the day datetime.date.today() returns
    \* ---- environment ----
    longTermFile,     \* <baseOutDir>/longTerm/merged/<src>_lc.dat: NoFile or rows <<flux, fluxErr>>
    mails,            \* number of messages handed to smtplib
    sent,             \* the last message handed to smtplib, Nothing if none
    mailEnv,          \* what the last sendAlert that composed a report found, Nothing if none
    \* ---- observation of the last call ----
    ret,              \* the last public operation: its name, the exception it raised,
                      \* the value it returned and the SENDALERT it computed
    vis               \* local values of the last is_visible call

stepVars == <<files, toolRuns, options, workDir, today>>
envVars  == <<config, settings, customThreshold, srcList, batch, stepVars>>
cfgVars  == <<version, forcealert, daily, sigma, sigmaLT, checkVisibility, siteLat,
              maxz, maxZA, dec, z, longTermFile, envVars>>
evalVars == <<visible, triggerkilled, active, lastFlux, lastFluxErr,
              lastFluxLongTimeBin, lastFluxErrLongTimeBin>>
outbox   == <<mails, sent, mailEnv>>
vars     == <<cfgVars, evalVars, pc, withhistory, threshold, outbox, ret, vis>>

----------------------------------------------------------------------------
(* Values that stand for Python objects *)

\* An optional value: Nothing is Python's None, a masked ('--') entry, an
\* attribute that was never assigned, or a local that a call did not compute.
Nothing  == <<>>
Some(x)  == <<x>>
Val(o)   == o[1]

NoFile   == <<>>            \* asciidata.open raises IOError
PyFalse  == "<False>"       \* the bool False where a config string is expected
NoExc    == "none"          \* a call that returned normally

Outcome(op, exc, value, alert) == [op |-> op, exc |-> exc, value |-> value, alert |-> alert]

Deg(x) == x * 100000        \* degrees -> 1e-5 degree units

Abs(x) == IF x < 0 THEN -x ELSE x

SeqMax(s) == CHOOSE m \in {s[i] : i \in 1..Len(s)} : \A i \in 1..Len(s) : s[i] <= m
SeqMin(s) == CHOOSE m \in {s[i] : i \in 1..Len(s)} : \A i \in 1..Len(s) : m <= s[i]
MinLen(a, b) == IF Len(a) < Len(b) THEN Len(a) ELSE Len(b)

----------------------------------------------------------------------------
(* Exact real arithmetic *)

Rat(n)     == <<n, 1>>
RAdd(a, b) == <<a[1] * b[2] + b[1] * a[2], a[2] * b[2]>>
RSub(a, b) == <<a[1] * b[2] - b[1] * a[2], a[2] * b[2]>>
RMul(a, b) == <<a[1] * b[1], a[2] * b[2]>>
RLe(a, b)  == a[1] * b[2] <= b[1] * a[2]
RLt(a, b)  == a[1] * b[2] <  b[1] * a[2]

\* The real avg + sig * sqrt(var), with sig >= 0 and var >= 0.
Real(avg, sig, var) == [avg |-> avg, sig |-> sig, var |-> var]
Fixed(n)            == Real(Rat(n), Rat(0), Rat(0))

\* x >= t.avg + t.sig * sqrt(t.var), for a rational x
GeReal(x, t) ==
    LET d == RSub(x, t.avg)
    IN  /\ RLe(Rat(0), d)
        /\ RLe(RMul(RMul(t.sig, t.sig), t.var), RMul(d, d))


----------------------------------------------------------------------------
(* Geometry / Visibility Engine *)

HessSiteLat == -2327167     \* siteLat = -23.27167 degrees, hard-coded in autoLC

\* automaticLightCurve.zaAtCulmination: np.abs(self.dec - self.siteLat)
zaAtCulmination(d, lat) == Abs(d - lat)

\* zaAtCulmination(dec) of the autoLC module
autoLC_zaAtCulmination(d) == Abs(d - HessSiteLat)

\* Mutant: an unknown redshift taken as beyond every grid redshift
CoerceZFar(zopt) == IF zopt = Nothing THEN 1000 ELSE Val(zopt)

\* "If input z is None, make it believe it is 0"
CoerceZ(zopt) == IF zopt = Nothing THEN 0 ELSE Val(zopt)

\* The max allowed ZA for the redshift zz: Some(ZA), or Nothing when
\* maxZA[msk[0][0]] raises IndexError (no grid redshift is > zz, or the ZA
\* column is shorter than the redshift column).
ThisMaxZA(zz, mz, mZA) ==
    IF zz > SeqMax(mz)
    THEN Some(SeqMin(mZA))
    ELSE LET msk == {i \in 1..Len(mz) : zz < mz[i]}
         IN  IF msk = {} THEN Nothing
             ELSE LET first == CHOOSE i \in msk : \A j \in msk : i <= j
                  IN  IF first > Len(mZA) THEN Nothing ELSE Some(mZA[first])

\* Convert ZA to Alt: np.abs(90. - thismaxZA)
ThisMinAlt(za) == Abs(Deg(90) - za)

TenMinutes == 1             \* datetime.timedelta(minutes=10), in ticks

\* Mutant: a moonset at sunset or at sunrise taken as falling within the night
BeginDarknessInclusive(nextSunset, nextSunrise, nextMoonset) ==
    IF nextMoonset >= nextSunset /\ nextMoonset <= nextSunrise
    THEN nextMoonset ELSE nextSunset

\* "Compute start and end of darkness time"
BeginDarkness(nextSunset, nextSunrise, nextMoonset) ==
    IF nextMoonset > nextSunset /\ nextMoonset < nextSunrise
    THEN nextMoonset ELSE nextSunset

EndDarkness(nextSunset, nextSunrise, nextMoonrise) ==
    IF nextMoonrise < nextSunrise /\ nextMoonrise > nextSunset
    THEN nextMoonrise ELSE nextSunrise

\* Mutant: the three checks combined by AND
VisibleFlagAllChecks(transit, begin, end, altT, altB, altE, minAlt) ==
    /\ (transit > begin /\ transit < end /\ altT > minAlt)
    /\ altB > minAlt
    /\ altE > minAlt

\* "check if source is visible, above minAlt, during this night"
VisibleFlag(transit, begin, end, altT, altB, altE, minAlt) ==
    \/ (transit > begin /\ transit < end /\ altT > minAlt)
    \/ altB > minAlt
    \/ altE > minAlt

\* "if the program is run during dark time": nextSunrise < nextSunset
NightInProgress(nextSunset, nextSunrise) == nextSunrise < nextSunset

\* Mutant: the clock put at the sunrise itself
AnchorAtSunrise(re, nextSunrise, now) == IF re THEN nextSunrise ELSE now

\* site.date: "we just put the current time at next sunrise + 10 min."
Anchor(re, nextSunrise, now) == IF re THEN nextSunrise + TenMinutes ELSE now

\* What the ephemeris (pyephem) answers during one is_visible call.  The clock
\* reading `now` is tick 0; next_setting / next_rising / next_transit answer
\* a time after the observer's date, given here as a delay.  The *1 answers are
\* those of the first pass, the *2 answers those of the pass made after the
\* clock is re-anchored; the altitudes are those at transit, at the begin and
\* at the end of darkness.
EphemerisOf(e, now) ==
    LET sunset1  == now + e.sunset1
        sunrise1 == now + e.sunrise1
        re       == NightInProgress(sunset1, sunrise1)
        anchor   == Anchor(re, sunrise1, now)
        nextSunset   == IF re THEN anchor + e.sunset2   ELSE sunset1
        nextSunrise  == IF re THEN anchor + e.sunrise2  ELSE sunrise1
        nextMoonset  == IF re THEN anchor + e.moonset2  ELSE now + e.moonset1
        nextMoonrise == IF re THEN anchor + e.moonrise2 ELSE now + e.moonrise1
    IN  [reanchored   |-> re,
         firstSunset  |-> sunset1,
         firstSunrise |-> sunrise1,
         anchor       |-> anchor,
         nextSunset   |-> nextSunset,
         nextSunrise  |-> nextSunrise,
         nextMoonset  |-> nextMoonset,
         nextMoonrise |-> nextMoonrise,
         srcTransitTime |-> anchor + e.transit,
         beginDarkness  |-> BeginDarkness(nextSunset, nextSunrise, nextMoonset),
         endDarkness    |-> EndDarkness(nextSunset, nextSunrise, nextMoonrise)]

\* The part of is_visible that follows the clock reading (both classes).
NightVisibility(thismaxZA, zaAtCulmin, e) ==
    LET minAlt == ThisMinAlt(thismaxZA)
        w      == EphemerisOf(e, 0)
        early  == e.altT < minAlt     \* "the source is just not correctly visible and we stop here"
    IN  [exc |-> NoExc,
         value |-> IF early THEN FALSE
                   ELSE VisibleFlag(w.srcTransitTime, w.beginDarkness, w.endDarkness,
                                    e.altT, e.altB, e.altE, minAlt),
         clockRead |-> TRUE,
         thismaxZA |-> Some(thismaxZA), thisminAlt |-> Some(minAlt),
         zaAtCulmin |-> zaAtCulmin,
         stoppedAtTransit |-> early,
         window |-> Some(w),
         \* the altitudes of the source at transit, at the begin and at the end
         \* of darkness (the last two are not asked for when the call stops at transit)
         altT |-> Some(e.altT), altB |-> Some(e.altB), altE |-> Some(e.altE)]

\* A call that ended before the clock was read.
EarlyVisibility(exc, value, thismaxZA, zaAtCulmin) ==
    [exc |-> exc, value |-> value, clockRead |-> FALSE,
     thismaxZA |-> thismaxZA,
     thisminAlt |-> IF thismaxZA = Nothing THEN Nothing ELSE Some(ThisMinAlt(Val(thismaxZA))),
     zaAtCulmin |-> zaAtCulmin, stoppedAtTransit |-> FALSE,
     window |-> Nothing, altT |-> Nothing, altB |-> Nothing, altE |-> Nothing]

\* Mutant: a source culminating exactly at the allowed ZA rejected too
NeverAboveMaxZAInclusive(thismaxZA, zaAtCulmin) == thismaxZA <= zaAtCulmin

\* "the source is never above maxZA set by 2D mask on Dec/z"
NeverAboveMaxZA(thismaxZA, zaAtCulmin) == thismaxZA < zaAtCulmin

\* automaticLightCurve.is_visible
is_visible(zopt, d, lat, mz, mZA, e) ==
    IF lat = Nothing
    THEN EarlyVisibility("AttributeError", FALSE, Nothing, Nothing)   \* self.siteLon / self.siteLat
    ELSE LET zz  == CoerceZ(zopt)
             mza == ThisMaxZA(zz, mz, mZA)
             za  == zaAtCulmination(d, Val(lat))
         IN  IF mza = Nothing
             THEN EarlyVisibility("IndexError", FALSE, Nothing, Nothing)
             ELSE IF za > Deg(90)
             THEN EarlyVisibility(NoExc, FALSE, mza, Some(za))  \* NEVER above horizon at the site
             ELSE IF NeverAboveMaxZA(Val(mza), za)
             THEN EarlyVisibility(NoExc, FALSE, mza, Some(za))  \* never above allowed max ZA
             ELSE NightVisibility(Val(mza), Some(za), e)

\* autoLC.is_visible(ra, dec, z): no geometric cut, z as given by the caller
autoLC_is_visible(zz, d, mz, mZA, e) ==
    LET mza == ThisMaxZA(zz, mz, mZA)
    IN  IF mza = Nothing
        THEN EarlyVisibility("IndexError", FALSE, Nothing, Nothing)
        ELSE NightVisibility(Val(mza), Nothing, e)

\* is_visible was not called
NotCalled == EarlyVisibility("notcalled", FALSE, Nothing, Nothing)

----------------------------------------------------------------------------
(* Admissibility Gate *)

\* Mutant: an exclusive redshift bound
GateMaskStrictZ(zz, za, mz, mZA) ==
    [i \in 1..MinLen(mz, mZA) |-> zz < mz[i] /\ za <= mZA[i]]

\* msk = (z<=grid[:,0])&(zaAtCulmin<=grid[:,1]), grid = zip(maxz, maxZA)
GateMask(zz, za, mz, mZA) ==
    [i \in 1..MinLen(mz, mZA) |-> zz <= mz[i] /\ za <= mZA[i]]

\* "if the mask has at least one 'True' element, we should send an alert"
KillDecision(msk, isvisible) ==
    IF (\E i \in DOMAIN msk : msk[i]) /\ isvisible THEN FALSE ELSE TRUE

\* Mutant: the option tested for truth, so that the string 'False' enables the check
VisibilityEnabledTruthy(cv) == cv # PyFalse

\* self.checkVisibility == 'True'
VisibilityEnabled(cv) == cv = "True"

\* automaticLightCurve.killTrigger: [exc, value, visible, v] where `visible` is
\* the new self.visible and v the is_visible call made (NotCalled if none)
killTrigger(zopt, d, lat, mz, mZA, cv, currentVisible, e) ==
    IF lat = Nothing
    THEN [exc |-> "AttributeError", value |-> FALSE, visible |-> currentVisible, v |-> NotCalled]
    ELSE LET za  == zaAtCulmination(d, Val(lat))
             zz  == CoerceZ(zopt)
             msk == GateMask(zz, za, mz, mZA)
             v   == IF VisibilityEnabled(cv) THEN is_visible(zopt, d, lat, mz, mZA, e) ELSE NotCalled
         IN  IF VisibilityEnabled(cv) /\ v.exc # NoExc
             THEN [exc |-> v.exc, value |-> FALSE, visible |-> currentVisible, v |-> v]
             ELSE LET isvis == IF VisibilityEnabled(cv) THEN v.value ELSE TRUE
                  IN  [exc |-> NoExc, value |-> KillDecision(msk, isvis),
                       visible |-> Some(isvis), v |-> v]

\* autoLC.killTrigger(ra, dec, z)
autoLC_killTrigger(zopt, d, mz, mZA, cv, e) ==
    LET za  == autoLC_zaAtCulmination(d)
        zz  == CoerceZ(zopt)
        msk == GateMask(zz, za, mz, mZA)
        v   == IF VisibilityEnabled(cv) THEN autoLC_is_visible(zz, d, mz, mZA, e) ELSE NotCalled
    IN  IF VisibilityEnabled(cv) /\ v.exc # NoExc
        THEN [exc |-> v.exc, value |-> FALSE, visible |-> Nothing, v |-> v]
        ELSE LET isvis == IF VisibilityEnabled(cv) THEN v.value ELSE TRUE
             IN  [exc |-> NoExc, value |-> KillDecision(msk, isvis),
                  visible |-> Nothing, v |-> v]


----------------------------------------------------------------------------
(* Dynamic Threshold Estimator *)

DefaultThreshold == 10      \* self.threshold = 1.e-6 ph cm^-2 s^-1

RECURSIVE Gcd(_, _)
Gcd(a, b) == IF b = 0 THEN Abs(a) ELSE Gcd(b, a % b)

\* A rational in lowest terms (one representation per value in the state)
Norm(a) == LET g == Gcd(a[1], a[2]) IN <<a[1] \div g, a[2] \div g>>

RDiv(a, b) == <<a[1] * b[2], a[2] * b[1]>>

RECURSIVE RSum(_)
RSum(s) == IF s = <<>> THEN Rat(0) ELSE Norm(RAdd(Head(s), RSum(Tail(s))))

Flux(h)    == [i \in 1..Len(h) |-> h[i][1]]      \* data[2].tonumpy()
FluxErr(h) == [i \in 1..Len(h) |-> h[i][2]]      \* data[3].tonumpy()

\* numpy.average(flux, weights=w) = sum(flux*w) / sum(w)
Average(flux, w) ==
    Norm(RDiv(RSum([i \in 1..Len(flux) |-> RMul(Rat(flux[i]), w[i])]), RSum(w)))

\* average(flux, weights=1./fluxErr)
FluxAverage(h) == Average(Flux(h), [i \in 1..Len(h) |-> <<1, FluxErr(h)[i]>>])

\* numpy.std(flux)**2 = mean(abs(flux - flux.mean())**2), ddof = 0
FluxVariance(h) ==
    LET flux == Flux(h)
        n    == Len(flux)
        mean == RDiv(RSum([i \in 1..n |-> Rat(flux[i])]), Rat(n))
        dev(i) == RSub(Rat(flux[i]), mean)
    IN  Norm(RDiv(RSum([i \in 1..n |-> RMul(dev(i), dev(i))]), Rat(n)))

\* Mutant: the two multipliers exchanged
SigmaForSwapped(isDaily, sig, sigLT) == IF isDaily THEN sigLT ELSE sig

\* "using a 2-level criteria depending on whether we are currently looking at
\* short- or long-term data"
SigmaFor(isDaily, sig, sigLT) == IF isDaily THEN sig ELSE sigLT

\* Mutant: a missing history file resets the threshold to the default
dynamicalTriggerResetting(file, isDaily, sig, sigLT, thr, wh) ==
    IF file = NoFile
    THEN [threshold |-> Fixed(DefaultThreshold), withhistory |-> FALSE, value |-> Nothing]
    ELSE [threshold |-> Real(FluxAverage(file), SigmaFor(isDaily, sig, sigLT), FluxVariance(file)),
          withhistory |-> wh, value |-> <<FluxAverage(file), FluxVariance(file)>>]

\* automaticLightCurve.dynamicalTrigger: the new threshold and withhistory,
\* and the returned (fluxAverage, fluxRMS), given as <<average, variance>>,
\* Nothing standing for (False, False)
dynamicalTrigger(file, isDaily, sig, sigLT, thr, wh) ==
    IF file = NoFile
    THEN [threshold |-> thr, withhistory |-> FALSE, value |-> Nothing]
    ELSE LET avg == FluxAverage(file)
             var == FluxVariance(file)
         IN  [threshold |-> Real(avg, SigmaFor(isDaily, sig, sigLT), var),
              withhistory |-> wh, value |-> <<avg, var>>]

\* autoLC.dynamicalTrigger(src): a single sigma
autoLC_dynamicalTrigger(file, sig, thr, wh) ==
    IF file = NoFile
    THEN [threshold |-> thr, withhistory |-> FALSE, value |-> Nothing]
    ELSE LET avg == FluxAverage(file)
             var == FluxVariance(file)
         IN  [threshold |-> Real(avg, sig, var), withhistory |-> wh, value |-> <<avg, var>>]

----------------------------------------------------------------------------
(* Trigger State Evaluator *)

\* x > t.avg + t.sig * sqrt(t.var)
GtReal(x, t) ==
    LET d == RSub(x, t.avg)
    IN  /\ RLe(Rat(0), d)
        /\ RLt(RMul(RMul(t.sig, t.sig), t.var), RMul(d, d))

\* Mutant: an exclusive boundary
FluxStrictlyAbove(f, ferr, thr) == GtReal(Rat(f - ferr), thr)

\* Mutant: the gate ignored
CombineCriteriaUngated(killed, act, force) == act \/ force

\* (self.lastFlux - self.lastFluxErr) >= self.threshold
FluxAboveThreshold(f, ferr, thr) == GeReal(Rat(f - ferr), thr)

\* Mutant: no second alert once a mail was handed over
CombineCriteriaOnce(killed, act, force) == ((~killed /\ act) \/ force) /\ mails = 0

\* "Combine killTrigger and flux above threshold criteria"
CombineCriteria(killed, act, force) == (~killed /\ act) \/ force

\* The decision of autoLC.sendAlert
autoLC_Decision(isDaily, kill, f, ferr, fLong, ferrLong, thr) ==
    IF ~kill
    THEN IF isDaily
         THEN FluxAboveThreshold(f, ferr, thr) \/ FluxAboveThreshold(fLong, ferrLong, thr)
         ELSE FluxAboveThreshold(f, ferr, thr)
    ELSE FALSE


----------------------------------------------------------------------------
(* Inputs *)

MaxDelay == 3               \* ephemeris answers fall 1..MaxDelay ticks after the observer's date
MaxHist  == 3               \* rows of a long-term history file

Versions == {"flaapluc", "autoLC"}

Delays    == 1..MaxDelay
AltValues == {Deg(30), Deg(45), Deg(60)}

Eph(s1, r1, ms1, mr1, s2, r2, ms2, mr2, tr, aT, aB, aE) ==
    [sunset1 |-> s1, sunrise1 |-> r1, moonset1 |-> ms1, moonrise1 |-> mr1,
     sunset2 |-> s2, sunrise2 |-> r2, moonset2 |-> ms2, moonrise2 |-> mr2,
     transit |-> tr, altT |-> aT, altB |-> aB, altE |-> aE]

NoEphemeris == Eph(1, 2, 1, 2, 0, 0, 0, 0, 1, 0, 0, 0)

\* The answers of the ephemeris within the bounds; a sunset and a sunrise are
\* different instants.  A call made by day (next sunset before next sunrise)
\* gets every combination of moon times, transit time and altitudes; a call
\* made by night gets every combination of times after the re-anchoring, with
\* one altitude for the three instants.
AllEphemeris ==
    LET day  == {Eph(s[1], s[2], m[1], m[2], 0, 0, 0, 0, tr, a[1], a[2], a[3]) :
                    s \in {p \in Delays \X Delays : p[1] < p[2]},
                    m \in Delays \X Delays, tr \in Delays,
                    a \in AltValues \X AltValues \X AltValues}
        night == {Eph(s[1], s[2], 0, 0, t[1], t[2], m[1], m[2], tr, a, a, a) :
                    s \in {p \in Delays \X Delays : p[2] < p[1]},
                    t \in {p \in Delays \X Delays : p[1] # p[2]},
                    m \in Delays \X Delays, tr \in Delays, a \in AltValues}
    IN  day \cup night

\* A few answers: by day or by night, a source below, between and above the
\* minimum altitudes of the Policy Grids, all night long.
FewEphemeris ==
    {Eph(1, 3, 1, 3, 0, 0, 0, 0, 2, a, a, a) : a \in {Deg(20), Deg(45), Deg(70)}}
    \cup {Eph(3, 1, 0, 0, 1, 3, 2, 3, 2, Deg(70), Deg(70), Deg(20))}

\* Policy Grids <<MaxZ, MaxZA>>: the two-row grid of the documentation, the
\* same grid listed in descending redshift, and a three-row grid.
Grids ==
    { << <<10, 100>>,     <<Deg(60), Deg(30)>> >>,
      << <<100, 10>>,     <<Deg(30), Deg(60)>> >>,
      << <<10, 50, 100>>, <<Deg(60), Deg(45), Deg(30)>> >> }

SiteLatValues == {-2327000}
\* zenith angles at culmination 3.27, 43.27, 60 (either class), 93.27 degrees
DecValues == {Deg(-20), Deg(20), 3673000, 3672833, Deg(70)}
ZValues   == {Nothing, Some(5), Some(10), Some(50), Some(100), Some(150)}

\* <<flux, fluxErr>> of the last point of a light-curve file
LastPoints     == {<<8, 2>>, <<12, 2>>, <<12, 5>>, <<18, 2>>}
LastPointsLong == {<<12, 5>>, <<18, 5>>}

HistRows == {<<8, 1>>, <<12, 1>>, <<12, 3>>}
RECURSIVE SeqsUpTo(_, _)
SeqsUpTo(S, n) ==
    IF n = 0 THEN {<<>>}
    ELSE LET shorter == SeqsUpTo(S, n - 1)
         IN  shorter \cup {Append(q, x) : q \in shorter, x \in S}
Histories == SeqsUpTo(HistRows, MaxHist) \ {<<>>}

DefaultSigma   == <<3, 1>>      \* self.sigma = 3.
DefaultSigmaLT == <<3, 2>>      \* self.sigmaLT = 1.5
autoLC_DefaultSigma == <<2, 1>> \* self.sigma = 2.

----------------------------------------------------------------------------
(* The state after construction and readSourceList(mysrc) *)

\* Nothing evaluated, nothing mailed
NotEvaluated ==
    /\ visible = Nothing /\ triggerkilled = Nothing /\ active = Nothing
    /\ lastFlux = Nothing /\ lastFluxErr = Nothing
    /\ lastFluxLongTimeBin = Nothing /\ lastFluxErrLongTimeBin = Nothing
    /\ mails = 0 /\ sent = Nothing /\ mailEnv = Nothing
    /\ vis = NotCalled

\* The tool steps
Steps == {"selectSrc", "makeTime", "createXML", "photoLC", "createDAT"}

\* No tool step run, no batch under way
NoRun == options = Nothing /\ workDir = Nothing /\ today = 0

Standalone ==
    /\ batch = Nothing
    /\ files = {} /\ toolRuns = [s \in Steps |-> 0]
    /\ NoRun

InitObject ==
    /\ version \in Versions
    /\ sigma = IF version = "flaapluc" THEN DefaultSigma ELSE autoLC_DefaultSigma
    /\ sigmaLT = IF version = "flaapluc" THEN DefaultSigmaLT ELSE Nothing
    /\ forcealert \in IF version = "flaapluc" THEN BOOLEAN ELSE {FALSE}
    /\ NotEvaluated
    /\ ret = Outcome("readSourceList", NoExc, Nothing, Nothing)
    /\ pc = "loaded"
    /\ config = Nothing /\ settings = Nothing
    /\ Standalone

\* A value of the threshold column of the list of sources: a number, or text
\* that float() refuses
ThresholdGiven(n) == <<"float", n>>
Malformed         == <<"text", 0>>

\* The row of the requested source in the list of sources
ListRow(found, rowDec, rowZ, myThreshold) ==
    [found |-> found, dec |-> rowDec, z |-> rowZ, myThreshold |-> myThreshold]

\* readSourceList(mysrc) has read a row whose threshold column gave self.threshold
InitLoaded ==
    /\ customThreshold = (threshold # Fixed(DefaultThreshold))
    /\ srcList = Some(ListRow(TRUE, dec, z,
                               ThresholdGiven(IF customThreshold THEN threshold.avg[1] ELSE 0)))

\* __init__ reads CheckVisibility, then the site coordinates, inside one try:
\* a failure leaves checkVisibility = False, and siteLat unassigned unless
\* only the altitude failed.  autoLC has no siteLat attribute.
InitSite(cvs, lats) ==
    /\ checkVisibility \in cvs
    /\ siteLat \in IF version = "flaapluc" THEN lats ELSE {Nothing}
    /\ (version = "flaapluc" /\ siteLat = Nothing) => checkVisibility = PyFalse


----------------------------------------------------------------------------
(* Operations of the Geometry / Visibility Engine and of the Gate *)

\* The ephemeris is consulted only by a call that reaches the clock reading.
AnswersFor(reaches, E) == IF reaches THEN E ELSE {NoEphemeris}

gateFrame == <<cfgVars, withhistory, threshold, outbox, triggerkilled, active,
               lastFlux, lastFluxErr, lastFluxLongTimeBin, lastFluxErrLongTimeBin>>

\* self.killTrigger(), called on its own
killTriggerWith(E) ==
    /\ version = "flaapluc" /\ pc = "loaded"
    /\ \E e \in AnswersFor(killTrigger(z, dec, siteLat, maxz, maxZA, checkVisibility,
                                       visible, NoEphemeris).v.clockRead, E) :
         LET k == killTrigger(z, dec, siteLat, maxz, maxZA, checkVisibility, visible, e)
         IN  /\ visible' = k.visible
             /\ vis' = k.v
             /\ ret' = Outcome("killTrigger", k.exc,
                                IF k.exc = NoExc THEN Some(k.value) ELSE Nothing, Nothing)
    /\ pc' = "evaluated"
    /\ UNCHANGED gateFrame

\* self.is_visible(), called on its own
is_visibleWith(E) ==
    /\ version = "flaapluc" /\ pc = "loaded"
    /\ \E e \in AnswersFor(is_visible(z, dec, siteLat, maxz, maxZA, NoEphemeris).clockRead, E) :
         LET v == is_visible(z, dec, siteLat, maxz, maxZA, e)
         IN  /\ vis' = v
             /\ ret' = Outcome("is_visible", v.exc,
                                IF v.exc = NoExc THEN Some(v.value) ELSE Nothing, Nothing)
    /\ pc' = "evaluated"
    /\ UNCHANGED <<gateFrame, visible>>

\* auto.killTrigger(ra, dec, z)
autoLC_killTriggerWith(E) ==
    /\ version = "autoLC" /\ pc = "loaded"
    /\ \E e \in AnswersFor(autoLC_killTrigger(z, dec, maxz, maxZA, checkVisibility,
                                              NoEphemeris).v.clockRead, E) :
         LET k == autoLC_killTrigger(z, dec, maxz, maxZA, checkVisibility, e)
         IN  /\ vis' = k.v
             /\ ret' = Outcome("killTrigger", k.exc,
                                IF k.exc = NoExc THEN Some(k.value) ELSE Nothing, Nothing)
    /\ pc' = "evaluated"
    /\ UNCHANGED <<gateFrame, visible>>

\* auto.is_visible(ra, dec, z), z as read from the source list
autoLC_is_visibleWith(E) ==
    /\ version = "autoLC" /\ pc = "loaded" /\ z # Nothing
    /\ \E e \in AnswersFor(autoLC_is_visible(Val(z), dec, maxz, maxZA, NoEphemeris).clockRead, E) :
         LET v == autoLC_is_visible(Val(z), dec, maxz, maxZA, e)
         IN  /\ vis' = v
             /\ ret' = Outcome("is_visible", v.exc,
                                IF v.exc = NoExc THEN Some(v.value) ELSE Nothing, Nothing)
    /\ pc' = "evaluated"
    /\ UNCHANGED <<gateFrame, visible>>

killTriggerCall        == killTriggerWith(FewEphemeris)
is_visibleCall         == is_visibleWith(FewEphemeris)
autoLC_killTriggerCall == autoLC_killTriggerWith(FewEphemeris)
autoLC_is_visibleCall  == autoLC_is_visibleWith(FewEphemeris)

\* Every source, site and Policy Grid of the input sets; one gate call.
InitGate ==
    /\ InitObject
    /\ InitSite({"True", "False", PyFalse}, {Some(l) : l \in SiteLatValues} \cup {Nothing})
    /\ \E g \in Grids : maxz = g[1] /\ maxZA = g[2]
    /\ dec \in DecValues
    /\ z \in ZValues
    /\ daily = FALSE /\ withhistory = FALSE
    /\ threshold = Fixed(DefaultThreshold)
    /\ longTermFile = NoFile
    /\ InitLoaded

NextGate ==
    \/ killTriggerCall
    \/ is_visibleCall
    \/ autoLC_killTriggerCall
    \/ autoLC_is_visibleCall

SpecGate == InitGate /\ [][NextGate]_vars

\* The night computation: sources that pass the geometric cuts of a
\* three-row Policy Grid (minimum altitudes 30, 45 and 60 degrees), the
\* visibility check enabled, and every answer of the ephemeris.
nightKillTriggerCall        == killTriggerWith(AllEphemeris)
nightIs_visibleCall         == is_visibleWith(AllEphemeris)
nightAutoLC_killTriggerCall == autoLC_killTriggerWith(AllEphemeris)
nightAutoLC_is_visibleCall  == autoLC_is_visibleWith(AllEphemeris)

InitNight ==
    /\ InitObject
    /\ forcealert = FALSE
    /\ InitSite({"True"}, {Some(l) : l \in SiteLatValues})
    /\ maxz = <<10, 50, 100>> /\ maxZA = <<Deg(60), Deg(45), Deg(30)>>
    /\ dec = Deg(-20)
    /\ z \in {Some(5), Some(10), Some(50)}
    /\ daily = FALSE /\ withhistory = FALSE
    /\ threshold = Fixed(DefaultThreshold)
    /\ longTermFile = NoFile
    /\ InitLoaded

NextNight ==
    \/ nightKillTriggerCall
    \/ nightIs_visibleCall
    \/ nightAutoLC_killTriggerCall
    \/ nightAutoLC_is_visibleCall

SpecNight == InitNight /\ [][NextNight]_vars


----------------------------------------------------------------------------
(* Operations of the monitoring cycle *)

\* createLCfig (createPNG in autoLC): "Redefine the trigger threshold if
\* withhistory=True"; dynamicalTrigger may also be called on its own.
EstimatorStep(op, run) ==
    /\ pc = "loaded"
    /\ LET r == IF version = "flaapluc"
                THEN dynamicalTrigger(longTermFile, daily, sigma, sigmaLT, threshold, withhistory)
                ELSE autoLC_dynamicalTrigger(longTermFile, sigma, threshold, withhistory)
       IN  IF run
           THEN /\ threshold' = r.threshold
                /\ withhistory' = r.withhistory
                /\ ret' = Outcome(op, NoExc, r.value, Nothing)
           ELSE /\ UNCHANGED <<threshold, withhistory>>
                /\ ret' = Outcome(op, NoExc, Nothing, Nothing)
    /\ pc' = "figured"
    /\ UNCHANGED <<cfgVars, evalVars, outbox, vis>>

createLCfigCall      == EstimatorStep("createLCfig", withhistory)
dynamicalTriggerCall == EstimatorStep("dynamicalTrigger", TRUE)

\* The last flux points read from the light-curve files: the evaluated series,
\* and in daily mode the long-bin series too.
ReadLastPoints(p, q) ==
    /\ lastFlux' = Some(p[1]) /\ lastFluxErr' = Some(p[2])
    /\ IF daily
       THEN lastFluxLongTimeBin' = Some(q[1]) /\ lastFluxErrLongTimeBin' = Some(q[2])
       ELSE UNCHANGED <<lastFluxLongTimeBin, lastFluxErrLongTimeBin>>

LongPointsRead == IF daily THEN LastPointsLong ELSE {<<0, 0>>}

Returns(op, value, SENDALERT) == ret' = Outcome(op, NoExc, Some(value), Some(SENDALERT))

\* What sendAlert finds when it composes the report: the name of the source
\* in the list of sources ("none", or a 2FGL, 3FGL or 2FHL name), the 3FGL and
\* 2FHL catalogue files ("missing", or the outcome "hit" / "miss" of the
\* look-up), the figure files that can be read, and the nomailall argument
MailEnv(fglName, cat3FGL, cat2FHL, readable, nomailall) ==
    [fglName |-> fglName, cat3FGL |-> cat3FGL, cat2FHL |-> cat2FHL,
     readable |-> readable, nomailall |-> nomailall]

Figures == {"pngFig", "energyTimeFig"}

AllMailEnvs ==
    {MailEnv(n, c3, c2, r, t) : n \in {"none", "2FGL", "3FGL", "2FHL"},
                                c3 \in {"missing", "hit", "miss"},
                                c2 \in {"missing", "hit", "miss"},
                                r \in SUBSET Figures, t \in BOOLEAN}

FewMailEnvs ==
    { MailEnv("2FGL", "hit", "miss", Figures, FALSE),
      MailEnv("2FGL", "missing", "hit", {"pngFig"}, FALSE),
      MailEnv("none", "hit", "hit", {}, TRUE) }

\* automaticLightCurve.search3FGLcounterpart: [exc, name]
search3FGLcounterpart(fglName, cat3FGL) ==
    IF fglName = "none" THEN [exc |-> NoExc, name |-> Nothing]
    ELSE IF fglName = "3FGL" THEN [exc |-> NoExc, name |-> Some("3FGL J")]
    ELSE IF cat3FGL = "missing" THEN [exc |-> "IOError", name |-> Nothing]   \* fits.open(cat3FGLfile)
    ELSE IF cat3FGL = "hit" THEN [exc |-> NoExc, name |-> Some("3FGL J")]
    ELSE [exc |-> NoExc, name |-> Nothing]

\* automaticLightCurve.search2FHLcounterpart: [exc, name]
search2FHLcounterpart(fglName, cat2FHL, cat3FGL) ==
    IF fglName = "none" THEN [exc |-> NoExc, name |-> Nothing]
    ELSE IF fglName = "2FHL" THEN [exc |-> NoExc, name |-> Some("2FHL J")]
    ELSE IF cat2FHL = "missing" THEN [exc |-> NoExc, name |-> Nothing]       \* except IOError: return None
    ELSE LET threefglName == search3FGLcounterpart(fglName, cat3FGL)
         IN  IF threefglName.exc # NoExc THEN [exc |-> threefglName.exc, name |-> Nothing]
             ELSE IF cat2FHL = "hit" THEN [exc |-> NoExc, name |-> Some("2FHL J")]
             ELSE [exc |-> NoExc, name |-> Nothing]

\* fhlmessage, fglmessage
CounterpartMessage(cat, name) ==
    IF name # Nothing THEN <<cat, "counterpart is", Val(name)>>
    ELSE <<"No", cat, "counterpart found">>

Recipients(nomailall) == IF ~nomailall THEN "usualRecipients" ELSE "testRecipients"

\* The message automaticLightCurve.sendAlert builds: [exc, msg]
ComposeReport(m) ==
    LET fhl == search2FHLcounterpart(m.fglName, m.cat2FHL, m.cat3FGL)
        fgl == search3FGLcounterpart(m.fglName, m.cat3FGL)
    IN  IF fhl.exc # NoExc THEN [exc |-> fhl.exc, msg |-> Nothing]
        ELSE IF fgl.exc # NoExc THEN [exc |-> fgl.exc, msg |-> Nothing]
        ELSE [exc |-> NoExc,
              msg |-> Some([to         |-> Recipients(m.nomailall),
                            fhlmessage |-> Some(CounterpartMessage("2FHL", fhl.name)),
                            fglmessage |-> Some(CounterpartMessage("3FGL", fgl.name)),
                            \* "Attach the figures": try ... except: pass
                            attached   |-> {fig \in Figures : fig \in m.readable}])]

\* The message autoLC.sendAlert builds: no counterpart, fp = open(pngFig, 'rb')
autoLC_ComposeReport(m) ==
    IF "pngFig" \notin m.readable THEN [exc |-> "IOError", msg |-> Nothing]
    ELSE [exc |-> NoExc,
          msg |-> Some([to |-> Recipients(m.nomailall),
                        fhlmessage |-> Nothing, fglmessage |-> Nothing,
                        attached |-> {"pngFig"}])]

\* "Send the email via our own SMTP server": the message handed over, or the
\* exception raised on the way
HandOver(op, m, report, smtpOK) ==
    /\ mailEnv' = Some(m)
    /\ IF report.exc # NoExc
       THEN UNCHANGED <<mails, sent>> /\ ret' = Outcome(op, report.exc, Nothing, Some(TRUE))
       ELSE IF smtpOK
       THEN mails' = mails + 1 /\ sent' = report.msg /\ Returns(op, TRUE, TRUE)
       ELSE UNCHANGED <<mails, sent>> /\ ret' = Outcome(op, "SMTPException", Nothing, Some(TRUE))

\* What follows the SENDALERT of Triggered: "return SENDALERT" in Triggered
\* itself, "if SENDALERT and sendmail" in sendAlert
AfterTriggered(op, SENDALERT, sendmail, m, smtpOK) ==
    IF op = "Triggered"
    THEN UNCHANGED outbox /\ Returns(op, SENDALERT, SENDALERT)
    ELSE IF SENDALERT /\ sendmail
         THEN HandOver(op, m, ComposeReport(m), smtpOK)
         ELSE UNCHANGED outbox /\ Returns(op, FALSE, SENDALERT)

\* automaticLightCurve.Triggered, as the body of the operation `op`
TriggeredBody(op, E, sendmail, m, smtpOK) ==
    \E p \in LastPoints, q \in LongPointsRead :
    \E e \in AnswersFor(killTrigger(z, dec, siteLat, maxz, maxZA, checkVisibility,
                                    visible, NoEphemeris).v.clockRead, E) :
      LET k   == killTrigger(z, dec, siteLat, maxz, maxZA, checkVisibility, visible, e)
          act == FluxAboveThreshold(p[1], p[2], threshold)
      IN  /\ ReadLastPoints(p, q)
          /\ vis' = k.v
          /\ visible' = k.visible
          /\ IF k.exc # NoExc
             THEN /\ UNCHANGED <<triggerkilled, active, outbox>>
                  /\ ret' = Outcome(op, k.exc, Nothing, Nothing)
             ELSE /\ triggerkilled' = Some(k.value)
                  /\ active' = Some(act)
                  /\ AfterTriggered(op, CombineCriteria(k.value, act, forcealert),
                                    sendmail, m, smtpOK)

\* self.Triggered()
TriggeredWith(E) ==
    /\ version = "flaapluc" /\ pc \in {"loaded", "figured"}
    /\ TriggeredBody("Triggered", E, FALSE, MailEnv("none", "missing", "missing", {}, FALSE), FALSE)
    /\ pc' = "evaluated"
    /\ UNCHANGED <<cfgVars, withhistory, threshold>>

\* self.sendAlert(nomailall, sendmail)
sendAlertWith(E, ME) ==
    /\ version = "flaapluc" /\ pc \in {"loaded", "figured"}
    /\ \E sendmail \in BOOLEAN, smtpOK \in BOOLEAN, m \in ME :
         TriggeredBody("sendAlert", E, sendmail, m, smtpOK)
    /\ pc' = "evaluated"
    /\ UNCHANGED <<cfgVars, withhistory, threshold>>

\* auto.sendAlert(src, ra, dec, z, nomailall)
autoLC_sendAlertWith(E, ME) ==
    /\ version = "autoLC" /\ pc \in {"loaded", "figured"}
    /\ \E p \in LastPoints, q \in LongPointsRead, smtpOK \in BOOLEAN, m \in ME :
       \E e \in AnswersFor(autoLC_killTrigger(z, dec, maxz, maxZA, checkVisibility,
                                              NoEphemeris).v.clockRead, E) :
         LET k == autoLC_killTrigger(z, dec, maxz, maxZA, checkVisibility, e)
         \* lastFlux, ..., KILLTRIGGER are locals of this sendAlert; the model keeps
         \* them in the variables of the same name to observe them
         IN  /\ ReadLastPoints(p, q)
             /\ vis' = k.v
             /\ IF k.exc # NoExc
                THEN /\ UNCHANGED <<outbox, triggerkilled>>
                     /\ ret' = Outcome("sendAlert", k.exc, Nothing, Nothing)
                ELSE /\ triggerkilled' = Some(k.value)
                     /\ IF autoLC_Decision(daily, k.value, p[1], p[2], q[1], q[2], threshold)
                        THEN HandOver("sendAlert", m, autoLC_ComposeReport(m), smtpOK)
                        ELSE UNCHANGED outbox /\ Returns("sendAlert", FALSE, FALSE)
    /\ pc' = "evaluated"
    /\ UNCHANGED <<cfgVars, withhistory, threshold, visible, active>>

TriggeredCall        == TriggeredWith(FewEphemeris)
sendAlertCall        == sendAlertWith(FewEphemeris, FewMailEnvs)
autoLC_sendAlertCall == autoLC_sendAlertWith(FewEphemeris, FewMailEnvs)

\* Sources of the monitoring cycle: admitted without a visibility check,
\* above every grid redshift, subject to the visibility check, exactly on the
\* largest grid redshift, and processed without a site latitude.
CycleSources ==
    { [z |-> Some(5),   cv |-> PyFalse, lat |-> Some(-2327000)],
      [z |-> Some(150), cv |-> "False", lat |-> Some(-2327000)],
      [z |-> Some(5),   cv |-> "True",  lat |-> Some(-2327000)],
      [z |-> Some(100), cv |-> "True",  lat |-> Some(-2327000)],
      [z |-> Nothing,   cv |-> PyFalse, lat |-> Nothing] }

\* Thresholds given in the list of sources (customThreshold)
CustomThresholds == {6}
StartThresholds  == {Fixed(DefaultThreshold)} \cup {Fixed(c) : c \in CustomThresholds}

Init ==
    /\ InitObject
    /\ \E s \in CycleSources :
         /\ z = s.z /\ checkVisibility = s.cv
         /\ siteLat = IF version = "flaapluc" THEN s.lat ELSE Nothing
    /\ maxz = <<10, 100>> /\ maxZA = <<Deg(60), Deg(30)>>
    /\ dec = Deg(-20)
    /\ daily \in BOOLEAN
    /\ withhistory \in BOOLEAN
    /\ threshold \in StartThresholds
    /\ longTermFile \in {NoFile, << <<8, 1>>, <<12, 1>> >>}
    /\ InitLoaded

Next ==
    \/ createLCfigCall
    \/ dynamicalTriggerCall
    \/ TriggeredCall
    \/ sendAlertCall
    \/ autoLC_sendAlertCall

Spec == Init /\ [][Next]_vars


\* The estimator alone, on every history file of the input set.
InitThreshold ==
    /\ InitObject
    /\ z = Some(5) /\ checkVisibility = PyFalse
    /\ siteLat = IF version = "flaapluc" THEN Some(-2327000) ELSE Nothing
    /\ maxz = <<10, 100>> /\ maxZA = <<Deg(60), Deg(30)>>
    /\ dec = Deg(-20)
    /\ daily \in BOOLEAN
    /\ withhistory \in BOOLEAN
    /\ threshold \in StartThresholds
    /\ longTermFile \in Histories \cup {NoFile}
    /\ InitLoaded

NextThreshold ==
    \/ createLCfigCall
    \/ dynamicalTriggerCall

SpecThreshold == InitThreshold /\ [][NextThreshold]_vars


\* The same evaluator object evaluated again and again: Triggered and
\* sendAlert are methods that a caller may invoke any number of times.
MaxMails == 2

evaluateAgain ==
    /\ pc = "evaluated" /\ mails < MaxMails
    /\ pc' = "loaded"
    /\ UNCHANGED <<cfgVars, evalVars, withhistory, threshold, outbox, ret, vis>>

InitAgain ==
    /\ InitObject
    /\ version = "flaapluc"
    /\ z \in {Some(5), Some(150)} /\ checkVisibility = "False"
    /\ siteLat = Some(-2327000)
    /\ maxz = <<10, 100>> /\ maxZA = <<Deg(60), Deg(30)>>
    /\ dec = Deg(-20)
    /\ daily = FALSE
    /\ withhistory = TRUE
    /\ threshold \in StartThresholds
    /\ longTermFile \in {NoFile, << <<8, 1>>, <<12, 1>> >>}
    /\ InitLoaded

NextAgain ==
    \/ dynamicalTriggerCall
    \/ TriggeredCall
    \/ sendAlertCall
    \/ evaluateAgain

SpecAgain == InitAgain /\ [][NextAgain]_vars


\* The report of sendAlert, for every state of the catalogues and of the
\* figure files.
mailSendAlertCall        == sendAlertWith(FewEphemeris, AllMailEnvs)
mailAutoLC_sendAlertCall == autoLC_sendAlertWith(FewEphemeris, AllMailEnvs)

InitMail ==
    /\ InitObject
    /\ z \in {Some(5), Some(150)} /\ checkVisibility = "False"
    /\ siteLat = IF version = "flaapluc" THEN Some(-2327000) ELSE Nothing
    /\ maxz = <<10, 100>> /\ maxZA = <<Deg(60), Deg(30)>>
    /\ dec = Deg(-20)
    /\ daily = FALSE
    /\ withhistory = FALSE
    /\ threshold = Fixed(DefaultThreshold)
    /\ longTermFile = NoFile
    /\ InitLoaded

NextMail ==
    \/ mailSendAlertCall
    \/ mailAutoLC_sendAlertCall

SpecMail == InitMail /\ [][NextMail]_vars


----------------------------------------------------------------------------
(* readSourceList(mysrc) *)

\* myThreshold[i] != 0.
ThresholdNonZero(t) == t[1] = "text" \/ t[2] # 0

\* Mutant: every text taken for a number
ThresholdParsesAnything(t) == TRUE

\* float(myThreshold[i]) raises no ValueError
ThresholdParses(t) == t[1] = "float"

\* readSourceList(mysrc) on the list `list` (Nothing: the file cannot be
\* opened): how it ends ("return", "notfound" or "exit"), the exit status, and
\* the threshold it leaves
readSourceList(list, custom, thr) ==
    IF list = Nothing
    THEN [end |-> "exit", status |-> Some(1), threshold |-> thr]
    ELSE LET row == Val(list)
         IN  IF ~row.found
             THEN [end |-> "notfound", status |-> Nothing, threshold |-> thr]
             ELSE IF custom /\ ThresholdNonZero(row.myThreshold)
             THEN IF ThresholdParses(row.myThreshold)
                  THEN [end |-> "return", status |-> Nothing,
                        threshold |-> Fixed(row.myThreshold[2])]
                  ELSE [end |-> "exit", status |-> Some(2), threshold |-> thr]
             ELSE [end |-> "return", status |-> Nothing, threshold |-> thr]

readSourceListCall ==
    /\ pc = "constructed"
    /\ LET r == readSourceList(srcList, customThreshold, threshold)
       IN  /\ threshold' = r.threshold
           /\ IF r.end = "return"
              THEN dec' = Val(srcList).dec /\ z' = Val(srcList).z
              ELSE UNCHANGED <<dec, z>>
           /\ pc' = CASE r.end = "return"   -> "loaded"
                      [] r.end = "notfound" -> "notfound"
                      [] r.end = "exit"     -> "exited"
           /\ ret' = Outcome("readSourceList",
                              IF r.end = "exit" THEN "SystemExit" ELSE NoExc,
                              r.status, Nothing)
    /\ UNCHANGED <<version, forcealert, daily, sigma, sigmaLT, checkVisibility, siteLat,
                   maxz, maxZA, longTermFile, envVars, evalVars, withhistory, outbox, vis>>

SourceLists ==
    {Nothing} \cup {Some(ListRow(f, Deg(-20), zz, t)) :
                       f \in BOOLEAN, zz \in {Some(5), Some(150)},
                       t \in {ThresholdGiven(0), ThresholdGiven(6), Malformed}}

\* The object as __init__ leaves it; dec and z are assigned by readSourceList
InitList ==
    /\ version \in Versions
    /\ sigma = IF version = "flaapluc" THEN DefaultSigma ELSE autoLC_DefaultSigma
    /\ sigmaLT = IF version = "flaapluc" THEN DefaultSigmaLT ELSE Nothing
    /\ forcealert = FALSE
    /\ NotEvaluated
    /\ ret = Outcome("__init__", NoExc, Nothing, Nothing)
    /\ pc = "constructed"
    /\ config = Nothing /\ settings = Nothing
    /\ Standalone
    /\ checkVisibility = "False"
    /\ siteLat = IF version = "flaapluc" THEN Some(-2327000) ELSE Nothing
    /\ maxz = <<10, 100>> /\ maxZA = <<Deg(60), Deg(30)>>
    /\ dec = 0 /\ z = Nothing
    /\ daily = FALSE /\ withhistory = FALSE
    /\ threshold = Fixed(DefaultThreshold)
    /\ longTermFile = NoFile
    /\ customThreshold \in BOOLEAN
    /\ srcList \in SourceLists

NextList ==
    \/ readSourceListCall
    \/ TriggeredCall
    \/ sendAlertCall
    \/ autoLC_sendAlertCall

SpecList == InitList /\ [][NextList]_vars


----------------------------------------------------------------------------
(* automaticLightCurve.__init__ and the configuration file *)

NumberOptions == {"LongTimeBin", "Sigma", "SigmaLT", "SiteLongitude", "SiteLatitude",
                  "SiteAltitude", "Emin", "Emax"}
ListOptions   == {"MaxZ", "MaxZA"}
TextOptions   == {"CheckVisibility", "UsualRecipients", "TestRecipients", "MailSender"}
Options       == NumberOptions \cup ListOptions \cup TextOptions

\* What the file holds for an option: a well-formed value, nothing, or text
\* that is no number
OptionStates == {"given", "absent", "malformed"}

\* How many options of a configuration file are absent or malformed at most
MaxFaults == 2

Faulty(cfg) == {o \in Options : cfg[o] # "given"}

Configs == {cfg \in [Options -> OptionStates] : Cardinality(Faulty(cfg)) <= MaxFaults}

\* The value a well-formed file gives
GivenValue(o) ==
    CASE o = "LongTimeBin"   -> Some(30)
      [] o = "Sigma"         -> Some(<<5, 2>>)
      [] o = "SigmaLT"       -> Some(<<2, 1>>)
      [] o = "SiteLongitude" -> Some(1650000)
      [] o = "SiteLatitude"  -> Some(-2327000)
      [] o = "SiteAltitude"  -> Some(1800)
      [] o = "Emin"          -> Some(200)
      [] o = "Emax"          -> Some(300000)
      [] o = "MaxZ"          -> Some(<<10, 100>>)
      [] o = "MaxZA"         -> Some(<<Deg(60), Deg(30)>>)
      [] OTHER               -> Some(o)

\* The defaults of __init__: 7 days, 100 MeV, 500 GeV
DefaultLongTimeBin == 7
DefaultEmin        == 100
DefaultEmax        == 500000

\* self.config.get(section, option): NoOptionError for an absent option
ConfigGet(cfg, o) ==
    IF cfg[o] = "absent" THEN [exc |-> "NoOptionError", value |-> Nothing]
    ELSE [exc |-> NoExc, value |-> IF cfg[o] = "given" THEN GivenValue(o) ELSE Some("text")]

\* float(self.config.get(...)), and the list comprehension of floats:
\* ValueError for text that is no number
ConfigGetFloat(cfg, o) ==
    IF cfg[o] = "malformed" THEN [exc |-> "ValueError", value |-> Nothing]
    ELSE ConfigGet(cfg, o)

\* try: float(get(o)) except: default, with a warning
WithDefault(cfg, o, default) ==
    LET r == ConfigGetFloat(cfg, o)
    IN  IF r.exc = NoExc THEN [value |-> Val(r.value), warned |-> {}]
        ELSE [value |-> default, warned |-> {o}]

\* The try block of the [Site] section: the assignments made before the first
\* exception stay, and checkVisibility becomes False
SiteBlock(cfg) ==
    LET cv  == ConfigGet(cfg, "CheckVisibility")
        lon == ConfigGetFloat(cfg, "SiteLongitude")
        lat == ConfigGetFloat(cfg, "SiteLatitude")
        alt == ConfigGetFloat(cfg, "SiteAltitude")
        okLon == cv.exc = NoExc /\ lon.exc = NoExc
        okLat == okLon /\ lat.exc = NoExc
        okAlt == okLat /\ alt.exc = NoExc
    IN  [checkVisibility |-> IF okAlt THEN Val(cv.value) ELSE PyFalse,
         siteLon |-> IF okLon THEN lon.value ELSE Nothing,
         siteLat |-> IF okLat THEN lat.value ELSE Nothing,
         siteAlt |-> IF okAlt THEN alt.value ELSE Nothing]

\* The first exception __init__ does not catch, NoExc if none
FirstUncaught(cfg) ==
    LET uncaught == <<ConfigGetFloat(cfg, "MaxZ"), ConfigGetFloat(cfg, "MaxZA"),
                      ConfigGet(cfg, "UsualRecipients"), ConfigGet(cfg, "TestRecipients"),
                      ConfigGet(cfg, "MailSender")>>
        raising  == {i \in 1..Len(uncaught) : uncaught[i].exc # NoExc}
    IN  IF raising = {} THEN NoExc
        ELSE uncaught[CHOOSE i \in raising : \A j \in raising : i <= j].exc

\* automaticLightCurve.__init__
initCall ==
    /\ pc = "start" /\ version = "flaapluc"
    /\ LET uncaught    == FirstUncaught(config)
           longtimebin == WithDefault(config, "LongTimeBin", DefaultLongTimeBin)
           sig         == WithDefault(config, "Sigma", DefaultSigma)
           sigLT       == WithDefault(config, "SigmaLT", DefaultSigmaLT)
           site        == SiteBlock(config)
           emin        == WithDefault(config, "Emin", DefaultEmin)
           emax        == WithDefault(config, "Emax", DefaultEmax)
       IN  IF uncaught # NoExc
           THEN /\ pc' = "failed"
                /\ ret' = Outcome("__init__", uncaught, Nothing, Nothing)
                /\ UNCHANGED <<sigma, sigmaLT, maxz, maxZA, checkVisibility, siteLat,
                               threshold, settings>>
           ELSE /\ pc' = "constructed"
                /\ ret' = Outcome("__init__", NoExc, Nothing, Nothing)
                /\ sigma' = sig.value /\ sigmaLT' = sigLT.value
                /\ maxz' = Val(GivenValue("MaxZ")) /\ maxZA' = Val(GivenValue("MaxZA"))
                /\ checkVisibility' = site.checkVisibility
                /\ siteLat' = site.siteLat
                /\ threshold' = Fixed(DefaultThreshold)
                /\ settings' = Some([longtimebin |-> longtimebin.value,
                                     emin |-> emin.value, emax |-> emax.value,
                                     siteLon |-> site.siteLon, siteAlt |-> site.siteAlt,
                                     usualRecipients |-> Val(ConfigGet(config, "UsualRecipients").value),
                                     testRecipients |-> Val(ConfigGet(config, "TestRecipients").value),
                                     mailSender |-> Val(ConfigGet(config, "MailSender").value),
                                     warnings |-> longtimebin.warned \cup sig.warned
                                                    \cup sigLT.warned \cup emin.warned
                                                    \cup emax.warned])
    /\ UNCHANGED <<version, forcealert, daily, dec, z, longTermFile, config, customThreshold,
                   srcList, batch, stepVars, evalVars, withhistory, outbox, vis>>

\* The try block of CheckVisibility in autoLC.__init__: False unless the
\* option is there
autoLC_CheckVisibility(cfg) ==
    LET cv == ConfigGet(cfg, "CheckVisibility")
    IN  IF cv.exc = NoExc THEN Val(cv.value) ELSE PyFalse

\* The message of sendErrorMail
ErrorMail ==
    [to |-> "testRecipients", fhlmessage |-> Nothing, fglmessage |-> Nothing, attached |-> {}]

\* autoLC.__init__ (longTerm = False): the options, then the lock files of
\* the archive directory, which end the process after an error mail
autoLC_initCall ==
    /\ pc = "start" /\ version = "autoLC"
    /\ LET uncaught    == FirstUncaught(config)
           longtimebin == WithDefault(config, "LongTimeBin", DefaultLongTimeBin)
           sig         == WithDefault(config, "Sigma", autoLC_DefaultSigma)
       IN  IF uncaught # NoExc
           THEN /\ pc' = "failed"
                /\ ret' = Outcome("__init__", uncaught, Nothing, Nothing)
                /\ UNCHANGED <<sigma, maxz, maxZA, checkVisibility, settings, outbox,
                               threshold>>
           ELSE /\ sigma' = sig.value
                /\ maxz' = Val(GivenValue("MaxZ")) /\ maxZA' = Val(GivenValue("MaxZA"))
                /\ checkVisibility' = autoLC_CheckVisibility(config)
                /\ settings' = Some([longtimebin |-> longtimebin.value,
                                     emin |-> Nothing, emax |-> Nothing,
                                     siteLon |-> Nothing, siteAlt |-> Nothing,
                                     usualRecipients |-> Val(ConfigGet(config, "UsualRecipients").value),
                                     testRecipients |-> Val(ConfigGet(config, "TestRecipients").value),
                                     mailSender |-> Val(ConfigGet(config, "MailSender").value),
                                     warnings |-> {}])
                /\ \E locked \in BOOLEAN, smtpOK \in BOOLEAN :
                      IF ~locked
                      THEN /\ pc' = "constructed"
                           /\ ret' = Outcome("__init__", NoExc, Nothing, Nothing)
                           /\ threshold' = Fixed(DefaultThreshold)
                           /\ UNCHANGED outbox
                      ELSE IF smtpOK
                      THEN /\ pc' = "exited"
                           /\ ret' = Outcome("__init__", "SystemExit", Some(10), Nothing)
                           /\ mails' = mails + 1 /\ sent' = Some(ErrorMail)
                           /\ UNCHANGED <<mailEnv, threshold>>
                      ELSE /\ pc' = "failed"
                           /\ ret' = Outcome("__init__", "SMTPException", Nothing, Nothing)
                           /\ UNCHANGED <<outbox, threshold>>
    /\ UNCHANGED <<version, forcealert, daily, dec, z, longTermFile, config, customThreshold,
                   srcList, batch, stepVars, evalVars, withhistory, sigmaLT, siteLat, vis>>

\* Before the object exists: the fields of __init__ are not assigned yet
InitConfig ==
    /\ version \in Versions
    /\ pc = "start"
    /\ config \in Configs
    /\ forcealert = FALSE /\ daily \in BOOLEAN /\ withhistory = FALSE
    /\ customThreshold = FALSE
    /\ sigma = Nothing /\ sigmaLT = Nothing
    /\ maxz = <<>> /\ maxZA = <<>>
    /\ checkVisibility = "unset" /\ siteLat = Nothing
    /\ threshold = Nothing /\ settings = Nothing
    /\ dec = 0 /\ z = Nothing
    /\ srcList = Nothing /\ longTermFile = NoFile
    /\ NotEvaluated
    /\ Standalone
    /\ ret = Outcome("main", NoExc, Nothing, Nothing)

NextConfig ==
    \/ initCall
    \/ autoLC_initCall

SpecConfig == InitConfig /\ [][NextConfig]_vars


----------------------------------------------------------------------------
(* processAllSources.py: main, and the jobs it hands to `parallel` *)

\* How many sources a batch names at most
MaxSources == 3

\* What the list of sources and the data hold for a source of the batch: all
\* well, a threshold column that is no number, photon data the tools cannot
\* read, or (a scheduled source) no row in the list at all
SourceKinds == {"ok", "badThreshold", "badFiles", "unlisted"}

Batches(kinds) == UNION {[1..n -> kinds] : n \in 1..MaxSources}

\* The row of the list of sources for a source of the batch
RowOf(kind) ==
    Some(ListRow(kind # "unlisted", 0, Nothing,
                 IF kind = "badThreshold" THEN Malformed ELSE ThresholdGiven(6)))

\* The loop over the ATOM schedule, from entry i on: auto.readSourceList(ATOMsrc)
\* per scheduled source, in the process of main.  A source without a row is
\* skipped; sys.exit leaves main.
RECURSIVE ATOMLookup(_, _, _, _)
ATOMLookup(sources, custom, i, src) ==
    IF i > Len(sources) THEN [end |-> "return", status |-> Nothing, src |-> src]
    ELSE LET r == readSourceList(RowOf(sources[i]), custom, Fixed(DefaultThreshold))
         IN  CASE r.end = "exit"     -> [end |-> "exit", status |-> r.status, src |-> src]
               [] r.end = "notfound" -> ATOMLookup(sources, custom, i + 1, src)
               [] r.end = "return"   -> ATOMLookup(sources, custom, i + 1, Append(src, i))

\* src as main builds it: from the schedule with -a, else the whole list
SelectSources(b) ==
    IF b.atom THEN ATOMLookup(b.sources, b.custom, 1, <<>>)
    ELSE [end |-> "return", status |-> Nothing,
          src |-> [k \in 1..Len(b.sources) |-> k]]

\* main of processAllSources.py up to os.system("parallel --jobs 8 ::: ...")
batchMainCall ==
    /\ pc = "start"
    /\ batch # Nothing
    /\ LET b == Val(batch)
           r == SelectSources(b)
       IN  IF r.end = "exit"
           THEN /\ pc' = "exited"
                /\ ret' = Outcome("processAllSources", "SystemExit", r.status, Nothing)
                /\ UNCHANGED batch
           ELSE /\ pc' = "launched"
                /\ ret' = Outcome("processAllSources", NoExc, Nothing, Nothing)
                /\ batch' = Some([b EXCEPT !.jobs =
                                    [k \in 1..Len(b.sources) |->
                                        IF \E j \in 1..Len(r.src) : r.src[j] = k
                                        THEN "queued" ELSE "none"]])
    /\ UNCHANGED <<version, forcealert, daily, sigma, sigmaLT, checkVisibility, siteLat,
                   maxz, maxZA, dec, z, longTermFile, config, settings, customThreshold,
                   srcList, stepVars, evalVars, withhistory, threshold, outbox, vis>>

\* How one job ends: ./automaticLightCurve.py [-c] src, a process of its own
\* running processSrc
JobOutcome(kind, custom) ==
    LET r == readSourceList(RowOf(kind), custom, Fixed(DefaultThreshold))
    IN  CASE r.end = "exit"    -> "exited"
          [] kind = "badFiles" -> "exited"
          [] OTHER             -> "evaluated"

\* One of the jobs of `parallel` runs to its end
batchJobRuns ==
    /\ pc = "launched"
    /\ batch # Nothing
    /\ \E k \in 1..Len(Val(batch).sources) :
          /\ Val(batch).jobs[k] = "queued"
          /\ batch' = Some([Val(batch) EXCEPT
                               !.jobs[k] = JobOutcome(Val(batch).sources[k], Val(batch).custom)])
    /\ UNCHANGED <<version, forcealert, daily, sigma, sigmaLT, checkVisibility, siteLat,
                   maxz, maxZA, dec, z, longTermFile, config, settings, customThreshold,
                   srcList, stepVars, evalVars, pc, withhistory, threshold, outbox, ret, vis>>

\* os.system returns when every job has ended, and main returns True
batchMainReturns ==
    /\ pc = "launched"
    /\ batch # Nothing
    /\ \A k \in 1..Len(Val(batch).sources) : Val(batch).jobs[k] # "queued"
    /\ pc' = "returned"
    /\ ret' = Outcome("processAllSources", NoExc, Some(TRUE), Nothing)
    /\ UNCHANGED <<version, forcealert, daily, sigma, sigmaLT, checkVisibility, siteLat,
                   maxz, maxZA, dec, z, longTermFile, envVars, evalVars, withhistory,
                   threshold, outbox, vis>>

\* main has built auto = autoLC(customThreshold=USECUSTOMTHRESHOLD, daily=DAILY)
InitBatch ==
    /\ version = "autoLC"
    /\ pc = "start"
    /\ sigma = autoLC_DefaultSigma /\ sigmaLT = Nothing
    /\ forcealert = FALSE /\ daily \in BOOLEAN /\ withhistory = FALSE
    /\ checkVisibility = "False" /\ siteLat = Nothing
    /\ maxz = <<10, 100>> /\ maxZA = <<Deg(60), Deg(30)>>
    /\ dec = 0 /\ z = Nothing
    /\ threshold = Fixed(DefaultThreshold)
    /\ longTermFile = NoFile
    /\ config = Nothing /\ settings = Nothing /\ srcList = Nothing
    /\ customThreshold \in BOOLEAN
    /\ NotEvaluated
    /\ files = {} /\ toolRuns = [s \in Steps |-> 0]
    /\ NoRun
    /\ ret = Outcome("__init__", NoExc, Nothing, Nothing)
    /\ \E atom \in BOOLEAN :
          \E sources \in Batches(IF atom THEN SourceKinds ELSE SourceKinds \ {"unlisted"}) :
             batch = Some([atom |-> atom, custom |-> customThreshold, sources |-> sources,
                           jobs |-> [k \in 1..Len(sources) |-> "none"]])

NextBatch ==
    \/ batchMainCall
    \/ batchJobRuns
    \/ batchMainReturns

SpecBatch == InitBatch /\ [][NextBatch]_vars


----------------------------------------------------------------------------
(* The tool steps: selectSrc, makeTime, createXML, photoLC, createDAT *)

\* How many times the tools are invoked in all at most
MaxToolRuns == 3

\* A file of the working directory is <<step, generation>>: the output file of
\* the step, as written by the generation-th invocation of its tool
\* (generation 0: left there by an earlier process).  The name of the file
\* depends on self.src and self.daily only, which no step assigns.
OutfileOf(s, fs) == {f \in fs : f[1] = s}

\* Mutant: the output file never found
OutfileMissing(s, fs) == FALSE

\* os.path.isfile(outfile)
OutfileExists(s, fs) == OutfileOf(s, fs) # {}

\* The exception of a tool that fails: gt_apps raise RuntimeError, createXML
\* ends with sys.exit(1) when make3FGLxml cannot be imported, createDAT
\* re-raises the IOError of fits.open
ToolError(s) ==
    CASE s = "createXML" -> "SystemExit"
      [] s = "createDAT" -> "IOError"
      [] OTHER           -> "RuntimeError"

\* Whether the tool of the step can leave its output file: either way for the
\* external tools; createDAT opens the light curve of photoLC itself and
\* writes its output once that file is open
ToolWrites(s, fs) ==
    IF s = "createDAT" /\ ~OutfileExists("photoLC", fs) THEN {FALSE} ELSE BOOLEAN

TotalToolRuns == toolRuns["selectSrc"] + toolRuns["makeTime"] + toolRuns["createXML"]
                   + toolRuns["photoLC"] + toolRuns["createDAT"]

\* One call of a tool step
stepCall(s) ==
    /\ pc = "loaded"
    /\ IF OutfileExists(s, files)
       THEN /\ ret' = Outcome(s, NoExc, Some(TRUE), Nothing)
            /\ UNCHANGED <<files, toolRuns>>
       ELSE /\ TotalToolRuns < MaxToolRuns
            /\ toolRuns' = [toolRuns EXCEPT ![s] = @ + 1]
            /\ \E written \in ToolWrites(s, files) :
                  IF written
                  THEN /\ files' = files \cup {<<s, toolRuns'[s]>>}
                       /\ ret' = Outcome(s, NoExc, Nothing, Nothing)
                  ELSE /\ files' = files
                       /\ ret' = Outcome(s, ToolError(s), Nothing, Nothing)
    /\ UNCHANGED <<version, forcealert, daily, sigma, sigmaLT, checkVisibility, siteLat,
                   maxz, maxZA, dec, z, longTermFile, config, settings, customThreshold,
                   srcList, batch, options, workDir, today, evalVars, pc, withhistory,
                   threshold, outbox, vis>>

selectSrcCall == stepCall("selectSrc")
makeTimeCall  == stepCall("makeTime")
createXMLCall == stepCall("createXML")
photoLCCall   == stepCall("photoLC")
createDATCall == stepCall("createDAT")

\* The object after readSourceList, in a working directory that may hold
\* output files of an earlier process
InitSteps ==
    /\ version = "flaapluc"
    /\ pc = "loaded"
    /\ sigma = DefaultSigma /\ sigmaLT = DefaultSigmaLT
    /\ forcealert = FALSE /\ daily \in BOOLEAN /\ withhistory = FALSE
    /\ checkVisibility = "False" /\ siteLat = Some(-2327000)
    /\ maxz = <<10, 100>> /\ maxZA = <<Deg(60), Deg(30)>>
    /\ dec = Deg(-20) /\ z = Some(5)
    /\ threshold = Fixed(DefaultThreshold)
    /\ longTermFile = NoFile
    /\ InitLoaded
    /\ config = Nothing /\ settings = Nothing
    /\ NotEvaluated
    /\ batch = Nothing
    /\ toolRuns = [s \in Steps |-> 0]
    /\ files \in SUBSET {<<s, 0>> : s \in Steps}
    /\ NoRun
    /\ ret = Outcome("readSourceList", NoExc, Nothing, Nothing)

NextSteps ==
    \/ selectSrcCall
    \/ makeTimeCall
    \/ createXMLCall
    \/ photoLCCall
    \/ createDATCall

SpecSteps == InitSteps /\ [][NextSteps]_vars


----------------------------------------------------------------------------
(* main of automaticLightCurve.py: the long-bin pass and the requested pass *)

\* How many times the date changes while main runs at most
MaxMidnights == 1

\* The directories of the results: baseOutDir/<today>, baseOutDir/longTerm/<yearmonth>
\* and baseOutDir/longTerm/merged
DayDir(d) == <<ToString(d)>>
MonthDir  == <<"longTerm", "yearmonth">>
MergedDir == <<"longTerm", "merged">>

\* self.workDir as autoLC.__init__ sets it from the date it reads
autoLC_workDir(longTerm, mergelongterm, d) ==
    IF longTerm THEN (IF mergelongterm THEN MergedDir ELSE MonthDir) ELSE DayDir(d)

\* The output file of a step in a directory, with or without the _daily infix
Outfile(dir, dly, s) == <<dir, dly, s>>

\* The options main can parse: --merge-long-term sets LONGTERM and clears MAIL
MainOptions ==
    {o \in [DAILY : BOOLEAN, MAIL : BOOLEAN, LONGTERM : BOOLEAN, MERGELONGTERM : BOOLEAN] :
        o.MERGELONGTERM => (o.LONGTERM /\ ~o.MAIL)}

\* The steps processSrc calls, in order
Pipeline(longTerm, mergelongterm) ==
    IF longTerm /\ mergelongterm
    THEN <<"mergeGTIfiles", "createXML", "photoLC", "createDAT">>
    ELSE IF longTerm
    THEN <<"selectSrc", "makeTime">>
    ELSE <<"selectSrc", "makeTime", "createXML", "photoLC", "createDAT">>

\* The files glob.glob(auto.workDir+'/'+src+'*') or '*daily*' matches for
\* the one source of the run
OldMerged(fs, dir, dly) == {f \in fs : f[1] = dir /\ (dly => f[2])}

\* The steps of a pipeline run one after the other on the files fs: a step
\* whose output file exists returns at once, mergeGTIfiles removes its output
\* file and writes it again, and the tool named failAt raises
RECURSIVE RunSteps(_, _, _, _, _)
RunSteps(seq, fs, dir, dly, failAt) ==
    IF seq = <<>>
    THEN [files |-> fs, op |-> "none", exc |-> NoExc]
    ELSE LET s     == Head(seq)
             merge == s = "mergeGTIfiles"
             out   == Outfile(dir, dly, IF merge THEN "makeTime" ELSE s)
         IN  IF ~merge /\ out \in fs
             THEN RunSteps(Tail(seq), fs, dir, dly, failAt)
             ELSE IF failAt = s
             THEN [files |-> IF merge THEN fs \ {out} ELSE fs, op |-> s, exc |-> ToolError(s)]
             ELSE RunSteps(Tail(seq), fs \cup {out}, dir, dly, failAt)

\* The message of an alert
AlertMail ==
    [to |-> "usualRecipients", fhlmessage |-> Nothing, fglmessage |-> Nothing,
     attached |-> {"lc.png"}]

\* processSrc(mysrc=src, daily=dly, mail=mail, longTerm=LONGTERM,
\* mergelongterm=MERGELONGTERM) for a source of the list, update = False
processSrc(dly, mail) ==
    LET longTerm == Val(options).LONGTERM
        merged   == Val(options).MERGELONGTERM
        dir      == autoLC_workDir(longTerm, merged, today)
    IN  /\ workDir' = Some(dir)
        /\ daily' = dly
        /\ \E locked \in BOOLEAN, failAt \in Steps \cup {"mergeGTIfiles", "none"},
              alert \in BOOLEAN :
              LET cleaned == IF merged THEN files \ OldMerged(files, dir, dly) ELSE files
                  months  == IF merged
                             THEN RunSteps(Pipeline(TRUE, FALSE), cleaned, MonthDir, dly, failAt)
                             ELSE [files |-> files, op |-> "none", exc |-> NoExc]
                  steps   == IF months.exc # NoExc
                             THEN months
                             ELSE RunSteps(Pipeline(longTerm, merged), months.files, dir, dly, failAt)
              IN  IF ~longTerm /\ locked
                  THEN /\ ret' = Outcome("__init__", "SystemExit", Some(10), Nothing)
                       /\ mails' = mails + 1 /\ sent' = Some(ErrorMail)
                       /\ UNCHANGED <<files, mailEnv>>
                  ELSE IF steps.exc # NoExc
                  THEN /\ ret' = Outcome(steps.op, steps.exc, Nothing, Nothing)
                       /\ files' = steps.files
                       /\ UNCHANGED outbox
                  ELSE IF longTerm /\ ~merged
                  THEN /\ ret' = Outcome("processSrc", NoExc, Some(TRUE), Nothing)
                       /\ files' = steps.files
                       /\ UNCHANGED outbox
                  ELSE IF dly /\ Outfile(dir, FALSE, "createDAT") \notin steps.files
                  THEN /\ ret' = Outcome("createPNG", "IOError", Nothing, Nothing)
                       /\ files' = steps.files
                       /\ UNCHANGED outbox
                  ELSE /\ files' = steps.files
                       /\ IF mail /\ ~merged
                          THEN /\ ret' = Outcome("processSrc", NoExc, Some(TRUE), Some(alert))
                               /\ IF alert
                                  THEN mails' = mails + 1 /\ sent' = Some(AlertMail)
                                  ELSE UNCHANGED <<mails, sent>>
                               /\ UNCHANGED mailEnv
                          ELSE /\ ret' = Outcome("processSrc", NoExc, Some(TRUE), Nothing)
                               /\ UNCHANGED outbox
        /\ UNCHANGED <<version, forcealert, sigma, sigmaLT, checkVisibility, siteLat,
                       maxz, maxZA, dec, z, longTermFile, config, settings, customThreshold,
                       srcList, batch, toolRuns, options, today, evalVars, withhistory,
                       threshold, vis>>

\* main, DAILY set: the long time-binned data first, no mail
mainLongBinPass ==
    /\ pc = "start" /\ Val(options).DAILY
    /\ processSrc(FALSE, FALSE)
    /\ pc' = IF ret'.exc = NoExc THEN "longBinned" ELSE "failed"

\* main: the requested pass
mainRequestedPass ==
    /\ \/ pc = "start" /\ ~Val(options).DAILY
       \/ pc = "longBinned"
    /\ processSrc(Val(options).DAILY, Val(options).MAIL)
    /\ pc' = IF ret'.exc = NoExc THEN "returned" ELSE "failed"

\* Environment: the date changes while main is running
midnight ==
    /\ pc \in {"start", "longBinned"}
    /\ today < MaxMidnights
    /\ today' = today + 1
    /\ UNCHANGED <<version, forcealert, daily, sigma, sigmaLT, checkVisibility, siteLat,
                   maxz, maxZA, dec, z, longTermFile, config, settings, customThreshold,
                   srcList, batch, files, toolRuns, options, workDir, evalVars, pc,
                   withhistory, threshold, outbox, ret, vis>>

\* main has parsed its options; the directories may hold the files of
\* earlier runs
InitDaily ==
    /\ version = "autoLC"
    /\ pc = "start"
    /\ sigma = autoLC_DefaultSigma /\ sigmaLT = Nothing
    /\ forcealert = FALSE /\ daily = FALSE /\ withhistory = FALSE
    /\ checkVisibility = "False" /\ siteLat = Nothing
    /\ maxz = <<10, 100>> /\ maxZA = <<Deg(60), Deg(30)>>
    /\ dec = 0 /\ z = Nothing
    /\ threshold = Fixed(DefaultThreshold)
    /\ longTermFile = NoFile
    /\ config = Nothing /\ settings = Nothing /\ srcList = Nothing
    /\ customThreshold = FALSE
    /\ NotEvaluated
    /\ batch = Nothing
    /\ toolRuns = [s \in Steps |-> 0]
    /\ options \in {Some(o) : o \in MainOptions}
    /\ workDir = Nothing /\ today = 0
    /\ files \in SUBSET {Outfile(autoLC_workDir(Val(options).LONGTERM,
                                                Val(options).MERGELONGTERM, 0), dly, "createDAT") :
                            dly \in BOOLEAN}
    /\ ret = Outcome("main", NoExc, Nothing, Nothing)

NextDaily ==
    \/ mainLongBinPass
    \/ mainRequestedPass
    \/ midnight

SpecDaily == InitDaily /\ [][NextDaily]_vars


----------------------------------------------------------------------------
(* Two processes of automaticLightCurve.py, started in parallel with the same
   options on two different sources of the list *)

Procs == {1, 2}
Other(p) == IF p = 1 THEN 2 ELSE 1

\* Names of sources, as the pieces a file name is made of: two unrelated
\* names, a name that goes on after another one, and a name that is another
\* one followed by the infix of the daily files
SourceNames == {<<"X">>, <<"Y">>, <<"X", "b">>, <<"X", "_daily">>}

\* str(src) + '_daily' + the ending of the output file of the step
FileName(src, dly, s) == src \o (IF dly THEN <<"_daily">> ELSE <<>>) \o <<s>>

\* One call of processSrc's sequence: the operation, the directory it works
\* in and self.daily
Op(op, dir, dly) == [op |-> op, dir |-> dir, dly |-> dly]

\* The calls of one processSrc, in order; --merge-long-term first removes the
\* merged files of the source, then processes the months (one month here)
Pass(o, dly) ==
    IF o.MERGELONGTERM
    THEN <<Op("remove", MergedDir, dly),
           Op("selectSrc", MonthDir, dly), Op("makeTime", MonthDir, dly),
           Op("mergeGTIfiles", MergedDir, dly), Op("createXML", MergedDir, dly),
           Op("photoLC", MergedDir, dly), Op("createDAT", MergedDir, dly),
           Op("createPNG", MergedDir, dly)>>
    ELSE IF o.LONGTERM
    THEN <<Op("selectSrc", MonthDir, dly), Op("makeTime", MonthDir, dly)>>
    ELSE <<Op("selectSrc", DayDir(0), dly), Op("makeTime", DayDir(0), dly),
           Op("createXML", DayDir(0), dly), Op("photoLC", DayDir(0), dly),
           Op("createDAT", DayDir(0), dly), Op("createPNG", DayDir(0), dly)>>

\* The calls of main: with DAILY the long-bin pass, then the daily one
Program(o) == (IF o.DAILY THEN Pass(o, FALSE) ELSE <<>>) \o Pass(o, o.DAILY)

\* name begins with prefix
IsPrefix(prefix, name) ==
    Len(prefix) <= Len(name) /\ SubSeq(name, 1, Len(prefix)) = prefix

\* glob.glob(auto.workDir+'/'+src+'*'), or src+'*daily*' when daily
Glob(src, o, fs) ==
    {f \in fs : /\ f[1] = o.dir
                /\ IsPrefix(src, f[2])
                /\ o.dly => \E i \in Len(src)+1..Len(f[2]) : f[2][i] = "_daily"}

\* The file a call writes
StepOut(src, o) ==
    <<o.dir, FileName(src, o.dly, IF o.op = "mergeGTIfiles" THEN "makeTime" ELSE o.op)>>

\* The files a call opens for reading
StepIn(src, o) ==
    CASE o.op = "makeTime"      -> {<<o.dir, FileName(src, o.dly, "selectSrc")>>}
      [] o.op = "mergeGTIfiles" -> {<<MonthDir, FileName(src, o.dly, "makeTime")>>}
      [] o.op = "photoLC"       -> {<<o.dir, FileName(src, o.dly, "makeTime")>>}
      [] o.op = "createDAT"     -> {<<o.dir, FileName(src, o.dly, "photoLC")>>}
      [] o.op = "createPNG"     -> {<<o.dir, FileName(src, d, "createDAT")>> :
                                       d \in {o.dly, FALSE}}
      [] OTHER                  -> {}

\* A step whose output file is there returns at once
Skipped(src, o, fs) == o.op \in Steps /\ StepOut(src, o) \in fs

\* The files a call reads, writes or deletes
Touched(src, o, fs) ==
    CASE o.op = "remove"     -> Glob(src, o, fs)
      [] Skipped(src, o, fs) -> {}
      [] o.op = "createPNG"  -> StepIn(src, o)
      [] OTHER               -> StepIn(src, o) \cup {StepOut(src, o)}

\* Whether the call raises: a file it reads is missing, or its tool fails
Raises(src, o, fs, toolOK) ==
    /\ o.op # "remove" /\ ~Skipped(src, o, fs)
    /\ \/ ~toolOK
       \/ o.op # "mergeGTIfiles" /\ ~(StepIn(src, o) \subseteq fs)

\* The files after the call
FilesAfter(src, o, fs, toolOK) ==
    CASE o.op = "remove"        -> fs \ Glob(src, o, fs)
      [] Skipped(src, o, fs)    -> fs
      [] o.op = "createPNG"     -> fs
      [] o.op = "mergeGTIfiles" -> IF Raises(src, o, fs, toolOK)
                                   THEN fs \ {StepOut(src, o)}
                                   ELSE fs \cup {StepOut(src, o)}
      [] OTHER                  -> IF Raises(src, o, fs, toolOK)
                                   THEN fs
                                   ELSE fs \cup {StepOut(src, o)}

\* The next call of process p
procStep(p) ==
    /\ pc = "parallel"
    /\ Val(batch)[p].todo # <<>>
    /\ LET me == Val(batch)[p]
           o  == Head(me.todo)
       IN  \E toolOK \in BOOLEAN :
              /\ files' = FilesAfter(me.src, o, files, toolOK)
              /\ IF Raises(me.src, o, files, toolOK)
                 THEN /\ batch' = Some([Val(batch) EXCEPT ![p] =
                                          [me EXCEPT !.todo = <<>>, !.status = "failed"]])
                      /\ ret' = Outcome(o.op, IF o.op \in Steps THEN ToolError(o.op) ELSE "IOError",
                                        Nothing, Nothing)
                 ELSE /\ batch' = Some([Val(batch) EXCEPT ![p] =
                                          [me EXCEPT !.todo = Tail(@),
                                                     !.status = IF Tail(me.todo) = <<>>
                                                                THEN "returned" ELSE @]])
                      /\ ret' = Outcome(o.op, NoExc, Nothing, Nothing)
    /\ UNCHANGED <<version, forcealert, daily, sigma, sigmaLT, checkVisibility, siteLat,
                   maxz, maxZA, dec, z, longTermFile, config, settings, customThreshold,
                   srcList, toolRuns, options, workDir, today, evalVars, pc, withhistory,
                   threshold, outbox, vis>>

firstProcessSteps  == procStep(1)
secondProcessSteps == procStep(2)

\* The two processes are started on two different sources, in directories
\* that hold no file of either yet
InitParallel ==
    /\ version = "autoLC"
    /\ pc = "parallel"
    /\ sigma = autoLC_DefaultSigma /\ sigmaLT = Nothing
    /\ forcealert = FALSE /\ daily = FALSE /\ withhistory = FALSE
    /\ checkVisibility = "False" /\ siteLat = Nothing
    /\ maxz = <<10, 100>> /\ maxZA = <<Deg(60), Deg(30)>>
    /\ dec = 0 /\ z = Nothing
    /\ threshold = Fixed(DefaultThreshold)
    /\ longTermFile = NoFile
    /\ config = Nothing /\ settings = Nothing /\ srcList = Nothing
    /\ customThreshold = FALSE
    /\ NotEvaluated
    /\ toolRuns = [s \in Steps |-> 0]
    /\ options \in {Some(o) : o \in MainOptions}
    /\ workDir = Nothing /\ today = 0
    /\ files = {}
    /\ \E n1 \in SourceNames : \E n2 \in SourceNames \ {n1} :
          batch = Some([p \in Procs |->
                          [src |-> IF p = 1 THEN n1 ELSE n2,
                           todo |-> Program(Val(options)), status |-> "running"]])
    /\ ret = Outcome("main", NoExc, Nothing, Nothing)

NextParallel ==
    \/ firstProcessSteps
    \/ secondProcessSteps

SpecParallel == InitParallel /\ [][NextParallel]_vars


----------------------------------------------------------------------------
(* Properties *)

ZOrZero == IF z = Nothing THEN 0 ELSE z[1]

\* |declination - siteLatitude|, when the site latitude is known
ZaDefined == version = "autoLC" \/ siteLat # Nothing
ZenithAngleAtCulmination ==
    IF version = "flaapluc" THEN Abs(dec - siteLat[1]) ELSE Abs(dec - HessSiteLat)

RowSatisfied(i) == ZOrZero <= maxz[i] /\ ZenithAngleAtCulmination <= maxZA[i]
SomeRowSatisfied == ZaDefined /\ \E i \in 1..Len(maxz) : RowSatisfied(i)

Margin     == lastFlux[1] - lastFluxErr[1]
MarginLong == lastFluxLongTimeBin[1] - lastFluxErrLongTimeBin[1]
Crosses(x) == GeReal(Rat(x), threshold)

Decided == pc = "evaluated" /\ ret.op \in {"Triggered", "sendAlert"} /\ ret.alert # Nothing

\* C1: in long-bin evaluation of an admissible source without forced alert,
\* the decision is Alert exactly when lastFlux - lastFluxErr >= threshold
\* (inclusive boundary).
C1_LongBinAlertIff ==
    (Decided /\ ~daily /\ ~forcealert /\ triggerkilled = Some(FALSE))
        => (ret.alert = Some(TRUE) <=> Crosses(Margin))

C1_Witness ==
    /\ ret.op = "Triggered" /\ ret.value = Some(TRUE)
    /\ ~daily /\ ~forcealert /\ triggerkilled = Some(FALSE)
    /\ threshold = Fixed(DefaultThreshold) /\ Margin = DefaultThreshold

\* C2: with the forced-alert override set, Triggered returns Alert for every input.
C2_ForcedAlertAlways ==
    (pc = "evaluated" /\ ret.op = "Triggered" /\ forcealert) => ret.value = Some(TRUE)

\* C3: a suppressed source without forced alert gets NoAlert and no mail,
\* whatever the last flux, its error and the threshold.
C3_SuppressedNoAlert ==
    (pc = "evaluated" /\ ret.op \in {"Triggered", "sendAlert"}
        /\ triggerkilled = Some(TRUE) /\ ~forcealert)
        => (ret.exc = NoExc /\ ret.value = Some(FALSE) /\ ret.alert = Some(FALSE) /\ mails = 0)

C3_Witness ==
    /\ ret.op = "sendAlert" /\ version = "flaapluc" /\ ret.value = Some(FALSE)
    /\ triggerkilled = Some(TRUE) /\ ~forcealert /\ active = Some(TRUE) /\ mails = 0

\* C4: in daily evaluation of an admissible source, either series crossing the
\* threshold (the daily one or the long-bin one) gives Alert.
C4_EitherSeriesAlerts ==
    (Decided /\ daily /\ triggerkilled = Some(FALSE)
        /\ (Crosses(Margin) \/ Crosses(MarginLong)))
        => ret.alert = Some(TRUE)

\* C5: killTrigger returns false exactly when some grid row has z <= maxz[i]
\* and zaAtCulmination <= maxZA[i] (both inclusive) and the visibility check
\* is disabled or is_visible returned true.
C5_KillTriggerIff ==
    ret.op = "killTrigger"
        => ((ret.value = Some(FALSE))
              <=> (SomeRowSatisfied /\ (checkVisibility # "True" \/ vis.value)))

C5_Witness ==
    /\ ret.op = "killTrigger" /\ ret.value = Some(FALSE)
    /\ z = Some(10) /\ maxz[1] = 10 /\ checkVisibility = "True" /\ vis.value

\* C6: is_visible returns false, without reading the clock, for every source
\* whose zenith angle at culmination exceeds 90 degrees.
C6_NeverRisesIsFalse ==
    (version = "flaapluc" /\ vis.exc # "notcalled" /\ siteLat # Nothing
        /\ ZenithAngleAtCulmination > Deg(90))
        => (vis.exc = NoExc /\ vis.value = FALSE /\ ~vis.clockRead)

\* The night computation of the last is_visible call
MinAlt          == Abs(Deg(90) - vis.thismaxZA[1])
TransitInWindow == /\ vis.window[1].beginDarkness < vis.window[1].srcTransitTime
                   /\ vis.window[1].srcTransitTime < vis.window[1].endDarkness
AnyCheckPasses  == \/ (TransitInWindow /\ vis.altT[1] > MinAlt)
                   \/ vis.altB[1] > MinAlt
                   \/ vis.altE[1] > MinAlt

\* C7 as claimed: past the geometric cuts, is_visible is true exactly when one
\* of the three checks passes.
C7_VisibleIffAnyCheck ==
    vis.clockRead => (vis.value <=> AnyCheckPasses)

\* C7 as amended: past the geometric cuts, is_visible is true exactly when
\* the altitude at transit is not below minAlt and one of the three checks
\* passes.
C7_VisibleIffTransitHighAndAnyCheck ==
    vis.clockRead => (vis.value <=> (vis.altT[1] >= MinAlt /\ AnyCheckPasses))

C7_Witness ==
    /\ vis.clockRead /\ vis.value /\ ret.value = Some(TRUE)
    /\ ~TransitInWindow /\ vis.altT[1] = MinAlt
    /\ vis.altB[1] < MinAlt /\ vis.altE[1] > MinAlt

\* C8: without a long-term history file the estimator raises nothing, reports
\* (False, False), clears withhistory and leaves the threshold as it was, and
\* the comparison of Triggered then uses that fixed threshold.
C8_MissingHistoryFallback ==
    /\ [][(longTermFile = NoFile /\ pc = "loaded" /\ pc' = "figured"
             /\ (ret'.op = "dynamicalTrigger" \/ withhistory))
            => (ret'.exc = NoExc /\ ret'.value = Nothing
                  /\ withhistory' = FALSE /\ threshold' = threshold)]_vars
    /\ []((longTermFile = NoFile /\ active # Nothing)
            => /\ threshold \in StartThresholds
               /\ active = Some(Margin >= threshold.avg[1]))

C8_Witness ==
    /\ longTermFile = NoFile /\ pc = "figured" /\ ret.op = "dynamicalTrigger"
    /\ ret.exc = NoExc /\ ret.value = Nothing /\ withhistory = FALSE
    /\ threshold = Fixed(6)

\* The history file, in integers
RECURSIVE SumTo(_, _)
SumTo(f, k) == IF k = 0 THEN 0 ELSE f[k] + SumTo(f, k - 1)
RECURSIVE ProdTo(_, _)
ProdTo(f, k) == IF k = 0 THEN 1 ELSE f[k] * ProdTo(f, k - 1)

HistN      == Len(longTermFile)
HistFlux   == [i \in 1..HistN |-> longTermFile[i][1]]
HistWeight == LET errs == [i \in 1..HistN |-> longTermFile[i][2]]   \* 1/fluxErr, times the product of the errors
              IN  [i \in 1..HistN |-> ProdTo(errs, HistN) \div errs[i]]

\* a = sum(flux/err) / sum(1/err)
IsWeightedMean(a) ==
    a[1] * SumTo(HistWeight, HistN)
        = a[2] * SumTo([i \in 1..HistN |-> HistWeight[i] * HistFlux[i]], HistN)

\* v = sum((flux - mean)^2) / n, mean = sum(flux) / n
IsPopulationVariance(v) ==
    LET S == SumTo(HistFlux, HistN)
        dev(i) == HistN * HistFlux[i] - S
    IN  v[1] * HistN * HistN * HistN
            = v[2] * SumTo([i \in 1..HistN |-> dev(i) * dev(i)], HistN)

C10_VisibilityDisabled ==
    (ret.op = "killTrigger" /\ checkVisibility # "True")
        => /\ vis.exc = "notcalled" /\ ~vis.clockRead
           /\ ret.value = IF ZaDefined THEN Some(~SomeRowSatisfied) ELSE Nothing
           /\ (version = "flaapluc" /\ ZaDefined) => visible = Some(TRUE)

C10_Witness ==
    /\ ret.op = "killTrigger" /\ checkVisibility = "False"
    /\ z = Some(100) /\ ret.value = Some(FALSE) /\ vis.exc = "notcalled"

\* What the gate operation `op` gives for the redshift zopt and the ephemeris
\* answers e, everything else as in the current state
GateOutcome(op, zopt, e) ==
    IF op = "is_visible"
    THEN LET v == is_visible(zopt, dec, siteLat, maxz, maxZA, e)
         IN  [exc |-> v.exc, value |-> v.value, v |-> v]
    ELSE LET k == IF version = "flaapluc"
                  THEN killTrigger(zopt, dec, siteLat, maxz, maxZA, checkVisibility, Nothing, e)
                  ELSE autoLC_killTrigger(zopt, dec, maxz, maxZA, checkVisibility, e)
         IN  [exc |-> k.exc, value |-> k.value, v |-> k.v]

Observed(o) ==
    /\ ret.exc = o.exc
    /\ ret.value = IF o.exc = NoExc THEN Some(o.value) ELSE Nothing
    /\ vis = o.v

GateCalled == ret.op = "killTrigger" \/ (ret.op = "is_visible" /\ version = "flaapluc")

\* C11: what killTrigger and is_visible gave for a source of unknown redshift
\* is what they give for redshift 0 with the same position, grid, site and
\* ephemeris answers.
C11_UnknownRedshiftAsZero ==
    (GateCalled /\ z = Nothing)
        => \A e \in FewEphemeris \cup {NoEphemeris} :
             Observed(GateOutcome(ret.op, Nothing, e))
                 => Observed(GateOutcome(ret.op, Some(0), e))

C11_Witness ==
    /\ ret.op = "killTrigger" /\ z = Nothing /\ version = "flaapluc"
    /\ ret.value = Some(FALSE) /\ vis.clockRead /\ vis.value
    /\ \E e \in FewEphemeris : Observed(GateOutcome("killTrigger", Nothing, e))

\* The inputs of the decision are those of the evaluation before
SameInputs ==
    /\ threshold' = threshold
    /\ lastFlux' = lastFlux /\ lastFluxErr' = lastFluxErr
    /\ triggerkilled' = triggerkilled
    /\ forcealert' = forcealert

ReturnedDecision(r) == r.op \in {"Triggered", "sendAlert"} /\ r.alert # Nothing

\* C12: the decision of Triggered is a function of threshold, last flux, last
\* flux error, admissibility result and override flag: an invocation with the
\* inputs of the invocation before returns its decision again, whatever was
\* decided and mailed earlier.
C12_Memoryless ==
    /\ [][(ReturnedDecision(ret) /\ ReturnedDecision(ret') /\ pc' = "evaluated" /\ SameInputs)
            => ret'.alert = ret.alert]_vars
    /\ [](ReturnedDecision(ret)
            => ret.alert = Some((triggerkilled = Some(FALSE) /\ Crosses(Margin)) \/ forcealert))

C12_Witness ==
    /\ pc = "evaluated" /\ ret.op = "Triggered" /\ ret.value = Some(TRUE)
    /\ mails >= 1 /\ ~forcealert

\* C13: without a site configuration the evaluation still ends with a yes/no
\* decision: killTrigger, Triggered and sendAlert return a boolean.
C13_MissingSiteStillDecides ==
    (pc = "evaluated" /\ version = "flaapluc" /\ siteLat = Nothing
        /\ ret.op \in {"killTrigger", "Triggered", "sendAlert"})
        => (ret.exc = NoExc /\ ret.value \in {Some(TRUE), Some(FALSE)})

\* The last sendAlert gave a message to smtplib (accepted or not)
HandedOver == (ret.exc = NoExc /\ ret.value = Some(TRUE)) \/ ret.exc = "SMTPException"

SendAlertDecided == pc = "evaluated" /\ ret.op = "sendAlert" /\ ret.alert # Nothing

\* C14: a sendAlert call hands one report to the mail transport when the
\* decision is Alert and none when it is NoAlert, and returns true exactly
\* when the report was handed over.
C14_MailExactlyOnce ==
    SendAlertDecided
        => /\ ret.alert = Some(TRUE)  => (HandedOver /\ mails <= 1)
           /\ ret.alert = Some(FALSE) => (~HandedOver /\ mails = 0)
           /\ ret.value = Some(TRUE) <=> mails = 1

Composing == SendAlertDecided /\ mailEnv # Nothing
Found     == mailEnv[1]

No3FGLCounterpart ==
    Found.fglName = "none" \/ (Found.fglName # "3FGL" /\ Found.cat3FGL # "hit")
No2FHLCounterpart ==
    Found.fglName = "none" \/ (Found.fglName # "2FHL" /\ Found.cat2FHL # "hit")

\* C15: on an Alert, a counterpart that cannot be resolved (look-up miss or
\* catalogue unavailable) is replaced by the 'no counterpart found' marker
\* and the mail is still handed to the transport.
C15_CounterpartMissNotFatal ==
    (Composing /\ version = "flaapluc" /\ (No3FGLCounterpart \/ No2FHLCounterpart))
        => /\ HandedOver
           /\ mails = 1 =>
                /\ No3FGLCounterpart
                     => sent[1].fglmessage = Some(<<"No", "3FGL", "counterpart found">>)
                /\ No2FHLCounterpart
                     => sent[1].fhlmessage = Some(<<"No", "2FHL", "counterpart found">>)

FiguresOfReport == IF version = "flaapluc" THEN Figures ELSE {"pngFig"}

\* C16: on an Alert, a figure that cannot be read is skipped: the other
\* figures are attached and the mail is still handed to the transport
\* (stated for reports whose counterpart look-ups raise nothing).
C16_AttachmentFailureSkipped ==
    (Composing /\ \E fig \in FiguresOfReport : fig \notin Found.readable)
        => \/ version = "flaapluc" /\ ret.exc = "IOError"
           \/ /\ HandedOver
              /\ mails = 1 => sent[1].attached = FiguresOfReport \cap Found.readable

MalformedOverride ==
    /\ customThreshold /\ srcList # Nothing
    /\ srcList[1].found /\ srcList[1].myThreshold = Malformed

\* C17: with custom thresholds enabled, a threshold of the requested source
\* that is no number makes readSourceList exit with status 2 (status 1 is the
\* unreadable list), the threshold left as it was; it is never taken for a
\* valid or absent override, and no evaluation or mail follows.
C17_MalformedThresholdAborts ==
    /\ [][(pc = "constructed" /\ pc' # pc /\ MalformedOverride)
            => /\ pc' = "exited"
               /\ ret' = Outcome("readSourceList", "SystemExit", Some(2), Nothing)
               /\ threshold' = threshold]_vars
    /\ [][pc = "exited" => pc' = "exited"]_vars
    /\ [](pc = "exited" => (mails = 0 /\ active = Nothing /\ ret.op = "readSourceList"))
    /\ []((ret.op = "readSourceList" /\ ret.value = Some(2)) => MalformedOverride)

C17_Witness ==
    /\ pc = "exited" /\ MalformedOverride /\ ret.value = Some(2)
    /\ threshold = Fixed(DefaultThreshold) /\ mails = 0

DefaultOf(o) ==
    CASE o = "LongTimeBin" -> DefaultLongTimeBin
      [] o = "Sigma"       -> DefaultSigma
      [] o = "SigmaLT"     -> DefaultSigmaLT
      [] o = "Emin"        -> DefaultEmin
      [] o = "Emax"        -> DefaultEmax

FieldOf(o) ==
    CASE o = "LongTimeBin" -> settings[1].longtimebin
      [] o = "Sigma"       -> sigma
      [] o = "SigmaLT"     -> sigmaLT
      [] o = "Emin"        -> settings[1].emin
      [] o = "Emax"        -> settings[1].emax

\* C18: an absent or malformed value of a recognized option never aborts the
\* construction: the object is built, the option has its default, and a
\* warning is printed for it (for the site options the default is a disabled
\* visibility check).
C18_MissingOptionDefaults ==
    (pc # "start" /\ Faulty(config) # {})
        => /\ pc = "constructed" /\ ret.exc = NoExc
           /\ \A o \in Faulty(config) \cap {"LongTimeBin", "Sigma", "SigmaLT", "Emin", "Emax"} :
                FieldOf(o) = DefaultOf(o) /\ o \in settings[1].warnings
           /\ (Faulty(config) \cap {"CheckVisibility", "SiteLongitude", "SiteLatitude",
                                    "SiteAltitude"} # {})
                => ~VisibilityEnabled(checkVisibility)


\* C19: a fatal condition met for one source of a batch stops that source
\* only: once the batch is over, every source of it that has a row in the list
\* of sources and no fatal condition of its own has been evaluated.
Fatal(kind) == JobOutcome(kind, Val(batch).custom) = "exited"

BatchOver == batch # Nothing /\ pc \in {"returned", "exited"}

C19_FatalStopsOneSourceOnly ==
    BatchOver =>
        \A k \in 1..Len(Val(batch).sources) :
            (Val(batch).sources[k] # "unlisted" /\ ~Fatal(Val(batch).sources[k]))
                => Val(batch).jobs[k] = "evaluated"


\* The last call was step s and it invoked its tool
ToolInvoked(s) == ret.op = s /\ ret.value = Nothing

\* This step invokes the tool of s
InvokesTool(s) == toolRuns'[s] # toolRuns[s]

\* C20: a step whose output file exists invokes no tool, returns True and
\* leaves the file as it is; hence, of two calls of a step in a row, the second
\* invokes no tool when the first left the output file.
C20_MemoizedByOutputFile ==
    [][\A s \in Steps :
          /\ OutfileOf(s, files) # {}
                => /\ ~InvokesTool(s)
                   /\ OutfileOf(s, files') = OutfileOf(s, files)
                   /\ (ret'.op = s => ret'.value = Some(TRUE))
          /\ (ToolInvoked(s) /\ ret.exc = NoExc /\ ret'.op = s) => ~InvokesTool(s)]_vars

\* selectSrc was called twice and nothing else: the first call ran gtselect,
\* which wrote the file, the second returned True
C20_Witness ==
    /\ ret = Outcome("selectSrc", NoExc, Some(TRUE), Nothing)
    /\ files = {<<"selectSrc", 1>>}
    /\ toolRuns = [s \in Steps |-> IF s = "selectSrc" THEN 1 ELSE 0]

\* C20 as stated: of two calls of a step in a row, the second never invokes
\* the tool again
C20_TwiceInvokesOnce ==
    [][\A s \in Steps : (ToolInvoked(s) /\ ret'.op = s) => ~InvokesTool(s)]_vars


\* The last is_visible call (made on its own or by killTrigger) got as far as
\* the resolution of maxZA(z)
ResolutionReached == vis.exc \notin {"notcalled", "AttributeError"}

\* Grid rows whose redshift is strictly greater than z
RowsAbove == {i \in 1..Len(maxz) : ZOrZero < maxz[i]}

ExceedsGrid == \A i \in 1..Len(maxz) : ZOrZero > maxz[i]

\* C23: is_visible resolves maxZA(z) by first match: the minimum of the
\* grid's ZA values when z exceeds every grid redshift, otherwise the ZA paired
\* with the first grid redshift strictly greater than z.
C23_FirstMatchResolution ==
    ResolutionReached
        => /\ vis.thismaxZA # Nothing
           /\ IF ExceedsGrid
              THEN \A i \in 1..Len(maxZA) : vis.thismaxZA[1] <= maxZA[i]
              ELSE \E i \in RowsAbove :
                      /\ \A j \in RowsAbove : i <= j
                      /\ vis.thismaxZA[1] = maxZA[i]


\* C24: is_visible returns false, without consulting the clock or the
\* ephemeris, whenever the resolved maxZA(z) is strictly less than the zenith
\* angle at culmination; a source culminating exactly at maxZA(z) passes this
\* cut and goes on to the night computation.
C24_ZenithAngleCut ==
    (vis.thismaxZA # Nothing /\ vis.zaAtCulmin # Nothing)
        => /\ vis.thismaxZA[1] < vis.zaAtCulmin[1]
                => /\ vis.exc = NoExc /\ vis.value = FALSE /\ ~vis.clockRead
                   /\ ret.op = "is_visible" => ret.value = Some(FALSE)
           /\ (vis.thismaxZA[1] = vis.zaAtCulmin[1] /\ vis.zaAtCulmin[1] <= Deg(90))
                => vis.clockRead

C24_Witness ==
    /\ ret.op = "is_visible" /\ version = "flaapluc"
    /\ vis.thismaxZA = Some(Deg(60)) /\ vis.zaAtCulmin = Some(Deg(60))
    /\ vis.clockRead /\ vis.value


\* The window of the last is_visible call that went through the night
\* computation
NightComputed == vis.clockRead /\ ~vis.stoppedAtTransit
Window        == vis.window[1]
InTheNight(t) == Window.nextSunset < t /\ t < Window.nextSunrise

\* C25: darkness begins at the next moonset when that moonset falls strictly
\* between the next sunset and the next sunrise, at the next sunset otherwise;
\* it ends at the next moonrise when that moonrise falls strictly between the
\* next sunset and the next sunrise, at the next sunrise otherwise.
C25_DarknessWindow ==
    NightComputed
        => /\ Window.beginDarkness = IF InTheNight(Window.nextMoonset)
                                     THEN Window.nextMoonset ELSE Window.nextSunset
           /\ Window.endDarkness = IF InTheNight(Window.nextMoonrise)
                                   THEN Window.nextMoonrise ELSE Window.nextSunrise

\* A moonset within the night and a moonrise at sunrise
C25_Witness ==
    /\ NightComputed /\ ret.op = "is_visible"
    /\ InTheNight(Window.nextMoonset) /\ Window.beginDarkness = Window.nextMoonset
    /\ Window.nextMoonrise = Window.nextSunrise /\ Window.endDarkness = Window.nextSunrise


C29_ResolutionTotal ==
    (vis.exc # "notcalled" /\ ZaDefined /\ ZOrZero >= 0 /\ Len(maxz) > 0)
        => /\ vis.exc = NoExc
           /\ vis.thismaxZA # Nothing
           /\ \E i \in 1..Len(maxZA) : vis.thismaxZA[1] = maxZA[i]

GridSorted ==
    /\ Len(maxz) = Len(maxZA)
    /\ \A i \in 1..(Len(maxz) - 1) : maxz[i] <= maxz[i + 1] /\ maxZA[i] >= maxZA[i + 1]

\* C30: for a Policy Grid sorted by ascending redshift with non-increasing ZA,
\* whenever some grid row admits the source (z <= gridRedshift and
\* zaAtCulmination <= gridZA) the maxZA(z) resolved by is_visible is at least
\* the zenith angle at culmination: the ZA cut of is_visible rejects no source
\* that the mask admits.
C30_MaskAndCutAgree ==
    (version = "flaapluc" /\ vis.exc # "notcalled" /\ GridSorted /\ SomeRowSatisfied)
        => /\ vis.thismaxZA # Nothing
           /\ vis.thismaxZA[1] >= ZenithAngleAtCulmination


\* C27: with history enabled and a long-term history file available, the
\* threshold that the comparison of Triggered used is the estimator's
\* average + sigma * rms, whichever operations were called before.
C27_EstimatorBeforeComparison ==
    (pc = "evaluated" /\ ret.op \in {"Triggered", "sendAlert"} /\ active # Nothing
        /\ withhistory /\ longTermFile # NoFile)
        => /\ IsWeightedMean(threshold.avg)
           /\ IsPopulationVariance(threshold.var)
           /\ threshold.sig = IF version = "autoLC" \/ daily THEN sigma ELSE sigmaLT


\* What the evaluator uses for a trigger option: the value of the file when
\* it is there and well-formed, `default` otherwise
UsedFor(o, default) == IF config[o] = "given" THEN GivenValue(o)[1] ELSE default

\* C22: the evaluator uses LongTimeBin = 7 days, Sigma = 3 and SigmaLT = 1.5
\* when the option is absent or malformed, and the value of the configuration
\* when it is present and well-formed.
C22_TriggerOptionDefaults ==
    (pc = "constructed" /\ config # Nothing)
        => /\ settings[1].longtimebin = UsedFor("LongTimeBin", 7)
           /\ sigma = UsedFor("Sigma", <<3, 1>>)
           /\ sigmaLT = UsedFor("SigmaLT", <<3, 2>>)

\* The step of main that is the pass with long time bins of a daily run, and
\* the step that is the daily pass after it
LongBinPass == pc = "start" /\ options # Nothing /\ Val(options).DAILY /\ pc' # pc
DailyPass   == pc = "longBinned" /\ pc' # pc

\* C28: in a run of main with DAILY set, the pass with long time bins sends
\* no alert mail, and the daily pass that follows it finds the long-bin flux
\* file when its evaluation reads it
C28_LongBinsBeforeDaily ==
    [][/\ LongBinPass => (mails' = mails \/ sent' = Some(ErrorMail))
       /\ DailyPass => ~(ret'.op = "createPNG" /\ ret'.exc = "IOError")]_vars

\* The half of C28 about the mail alone
C28_NoAlertFromLongBins ==
    [][LongBinPass => (mails' = mails \/ sent' = Some(ErrorMail))]_vars

\* The files a process of the given source can name: the files that belong
\* to the source
FilesOfSource(src) ==
    {<<dir, FileName(src, dly, s)>> :
        dir \in {DayDir(0), MonthDir, MergedDir}, dly \in BOOLEAN, s \in Steps}

\* The files process p reads, writes or deletes in its next call
TouchedBy(p) == Touched(Val(batch)[p].src, Head(Val(batch)[p].todo), files)

\* C21: when two different sources are processed by parallel processes, no
\* call of a process reads, writes or deletes a file that belongs to the
\* source of the other process, in every interleaving
C21_NoFileOfTheOtherSource ==
    [][\A p \in Procs :
          (batch # Nothing /\ pc = "parallel" /\ Val(batch)'[p] # Val(batch)[p])
             => TouchedBy(p) \cap FilesOfSource(Val(batch)[Other(p)].src) = {}]_vars

\* The same for two sources neither of whose names begins with the other's
C21_UnrelatedNames ==
    [][\A p \in Procs :
          (/\ batch # Nothing /\ pc = "parallel" /\ Val(batch)'[p] # Val(batch)[p]
           /\ ~IsPrefix(Val(batch)[1].src, Val(batch)[2].src)
           /\ ~IsPrefix(Val(batch)[2].src, Val(batch)[1].src))
             => TouchedBy(p) \cap FilesOfSource(Val(batch)[Other(p)].src) = {}]_vars

====
